---- MODULE Spec2Model ----
(***************************************************************************)
(* Variant pickers of the theme: VariantPickerCLDual and VariantPickerCL   *)
(* (assets/variant-picker-cl.js), VariantPicker (variant-picker.js) and    *)
(* SwatchesVariantPickerComponent (product-card.js). A run follows one     *)
(* picker: on a product page or, for the swatches, in a product card of a  *)
(* collection page, for as long as the picker is in the document.          *)
(* The browser is single threaded: every action below is one task of the   *)
(* event loop (an event handler, an animation-frame callback, a yield      *)
(* callback, a timer, the settling of one fetch).                          *)
(***************************************************************************)
EXTENDS Integers, Sequences, FiniteSets, TLC

\* ------------------------------------------------------------------ bounds

\* Number of user picks (change events) in one run.
MaxPicks == 2

\* Number of fetches of one run that end other than with the product page
\* (network failure, error status).
MaxFailures == 1

\* Number of in-page anchor navigations (each adds a same-document history entry).
MaxHashNav == 1

\* Number of Updated events other components of the page dispatch in one run.
MaxExternal == 1

\* ------------------------------------------------------------- page data

\* The combined-listing family rendered into data-combinations, in input order:
\* productId|variantId|color|size|productUrl|available (isCurrent depends on the page).
Family ==
  << [productId |-> "P1", variantId |-> "V1", color |-> "Red",   size |-> "S", productUrl |-> "/products/u1", available |-> TRUE],
     [productId |-> "P2", variantId |-> "V2", color |-> "Blue",  size |-> "S", productUrl |-> "/products/u2", available |-> TRUE],
     [productId |-> "P3", variantId |-> "V3", color |-> "Red",   size |-> "M", productUrl |-> "/products/u3", available |-> FALSE],
     [productId |-> "P4", variantId |-> "V4", color |-> "Green", size |-> "M", productUrl |-> "/products/u4", available |-> TRUE] >>

NFamily == Len(Family)

\* The page shown after a server error whose body still has a <main> element
\* (the store's error page: no picker, no product form).
ErrPage == NFamily + 1

Dims == {"color", "size"}

\* The radio inputs of each option container, in DOM order (data-input-index).
Inputs == [color |-> <<"Red", "Blue", "Green">>, size |-> <<"S", "M">>]

\* String.prototype.trim on the strings of the model.
Trim(s) ==
  CASE s = " Red"  -> "Red"
    [] s = "Red "  -> "Red"
    [] s = " S "   -> "S"
    [] OTHER       -> s

\* String.prototype.toLowerCase on the strings of the model.
ToLowerCase(s) ==
  CASE s = "Red"   -> "red"
    [] s = "RED"   -> "red"
    [] s = "Blue"  -> "blue"
    [] s = "Green" -> "green"
    [] s = "S"     -> "s"
    [] s = "M"     -> "m"
    [] OTHER       -> s

\* Position of v in sequence s (0 when absent): Array.prototype.findIndex.
IndexOf(s, v) ==
  IF \E i \in 1..Len(s) : s[i] = v
  THEN CHOOSE i \in 1..Len(s) : s[i] = v /\ \A j \in 1..(i - 1) : s[j] # v
  ELSE 0

\* A find that returns the last match instead of the first.
FindLast(S) == IF S = {} THEN 0 ELSE CHOOSE i \in S : \A j \in S : j <= i

\* Array.prototype.find / querySelector: among the positions S that match, the
\* first in order (0 if none).
FindFirst(S) == IF S = {} THEN 0 ELSE CHOOSE i \in S : \A j \in S : i <= j

\* A server that writes is_current = true on every entry.
IsCurrentAlways(i, p) == TRUE

\* The is_current field the server writes on entry i of the data-combinations
\* attribute of page p: true on the entry of the product on screen.
IsCurrentField(i, p) == i = p

\* #parseCombinations applied to the data-combinations attribute of page p.
ParsedCombinations(p) ==
  [i \in 1..NFamily |->
     [productId |-> Family[i].productId, variantId |-> Family[i].variantId,
      color |-> Family[i].color, size |-> Family[i].size,
      productUrl |-> Family[i].productUrl, available |-> Family[i].available,
      isCurrent |-> IsCurrentField(i, p)]]

\* ------------------------------------------------- pill animation (shared)

\* A history that is never cut.
TakeAll(s) == s

\* The first two entries of a sequence: checkedIndices.length = Math.min(length, 2).
Take2(s) == IF Len(s) > 2 THEN SubSeq(s, 1, 2) ELSE s

\* updateSelectedOptionPillAnimation(radios, checkedIndices, inputIndex, container).
\* cur / prev: the radios carrying data-current-checked / data-previous-checked
\* = 'true'; idx: the checked-index history. Returns the three, updated.
UpdatePill(cur, prev, idx, inputIndex) ==
  LET cleared == prev \ {idx[k] : k \in 1..Len(idx)}
      idx2    == Take2(<<inputIndex>> \o idx)
      cur2    == cur \cup {idx2[1]}
  IN  IF Len(idx2) = 2
      THEN [cur |-> cur2 \ {idx2[2]}, prev |-> cleared \cup {idx2[2]}, idx |-> idx2]
      ELSE [cur |-> cur2, prev |-> cleared, idx |-> idx2]

\* --------------------------------------------------- VariantPickerCLDual
\* A dual picker is a record st: its private fields (combinations, selectedColor,
\* selectedSize, currentProductUrl, checkedIndices; "" is undefined) and its DOM
\* subtree (checked, disabled, unavailable, pillCurrent, pillPrevious per dimension).

\* A color query that ignores the selected size.
GetAllColors(st) ==
  {Trim(st.combinations[i].color) : i \in {j \in 1..Len(st.combinations) : st.combinations[j].color # ""}}

\* #getAvailableColors
GetAvailableColors(st) ==
  IF st.selectedSize = ""
  THEN {Trim(st.combinations[i].color) : i \in {j \in 1..Len(st.combinations) : st.combinations[j].color # ""}}
  ELSE {Trim(st.combinations[i].color) :
          i \in {j \in 1..Len(st.combinations) :
                   /\ st.combinations[j].size # ""
                   /\ Trim(st.combinations[j].size) = Trim(st.selectedSize)
                   /\ st.combinations[j].color # ""}}

\* #getAvailableSizes
GetAvailableSizes(st) ==
  IF st.selectedColor = ""
  THEN {Trim(st.combinations[i].size) : i \in {j \in 1..Len(st.combinations) : st.combinations[j].size # ""}}
  ELSE {Trim(st.combinations[i].size) :
          i \in {j \in 1..Len(st.combinations) :
                   /\ st.combinations[j].color # ""
                   /\ Trim(st.combinations[j].color) = Trim(st.selectedColor)
                   /\ st.combinations[j].size # ""}}

\* A filtering that marks no color.
ColorUnavailableNone(st) == {}

\* The color inputs #updateFiltering marks data-option-available="false".
ColorUnavailable(st) ==
  {v \in {Inputs.color[i] : i \in 1..Len(Inputs.color)} :
     LET colorValue == Trim(v)
         isAvailable == colorValue \in GetAvailableColors(st)
         hasSelectedSize ==
           \/ st.selectedSize = ""
           \/ \E i \in 1..Len(st.combinations) :
                /\ st.combinations[i].color # ""
                /\ Trim(st.combinations[i].color) = colorValue
                /\ st.combinations[i].size # ""
                /\ Trim(st.combinations[i].size) = Trim(st.selectedSize)
     IN ~(isAvailable /\ hasSelectedSize)}

\* The size inputs #updateFiltering marks data-option-available="false".
SizeUnavailable(st) ==
  {v \in {Inputs.size[i] : i \in 1..Len(Inputs.size)} :
     LET sizeValue == Trim(v)
     IN ~(\E i \in 1..Len(st.combinations) :
            /\ st.combinations[i].size # ""
            /\ Trim(st.combinations[i].size) = sizeValue
            /\ st.combinations[i].available
            /\ (st.selectedColor = ""
                \/ (st.combinations[i].color # ""
                    /\ Trim(st.combinations[i].color) = Trim(st.selectedColor))))}

\* The color inputs #updateFiltering disables.
ColorDisabled(st) ==
  {v \in ColorUnavailable(st) : ~(st.selectedColor # "" /\ Trim(st.selectedColor) = Trim(v))}

\* A filtering that disables every size without a combination, the selected one included.
SizeDisabledAlsoSelected(st) ==
  {v \in {Inputs.size[i] : i \in 1..Len(Inputs.size)} : Trim(v) \notin GetAvailableSizes(st)}

\* The size inputs #updateFiltering disables.
SizeDisabled(st) ==
  {v \in {Inputs.size[i] : i \in 1..Len(Inputs.size)} :
     /\ Trim(v) \notin GetAvailableSizes(st)
     /\ ~(st.selectedSize # "" /\ Trim(st.selectedSize) = Trim(v))}

\* #updateFiltering
UpdateFiltering(st) ==
  [st EXCEPT !.unavailable = [color |-> ColorUnavailable(st), size |-> SizeUnavailable(st)],
             !.disabled = [color |-> ColorDisabled(st), size |-> SizeDisabled(st)]]

\* A lookup that settles for the first combination of the selected color.
FindSelectedColorOnly(st) ==
  FindFirst({i \in 1..Len(st.combinations) :
               ToLowerCase(Trim(st.combinations[i].color)) = ToLowerCase(Trim(st.selectedColor))})

\* The lookup of #handleSelectionChange that decides to dispatch Selected: the first
\* combination equal to the selection after trim().toLowerCase() (0: none).
FindSelected(st) ==
  FindFirst({i \in 1..Len(st.combinations) :
               /\ ToLowerCase(Trim(st.combinations[i].color)) = ToLowerCase(Trim(st.selectedColor))
               /\ ToLowerCase(Trim(st.combinations[i].size)) = ToLowerCase(Trim(st.selectedSize))})

\* A lookup that settles for the first combination of the selected size.
FindToNavigateSizeOnly(st) ==
  FindFirst({i \in 1..Len(st.combinations) :
               st.combinations[i].size # "" /\ Trim(st.combinations[i].size) = Trim(st.selectedSize)})

\* The lookup of #navigateToMatchingProduct that chooses the product to fetch: the
\* first combination equal to the selection after trim() (0: none).
FindToNavigate(st) ==
  IF st.selectedColor = "" \/ st.selectedSize = "" THEN 0
  ELSE FindFirst({i \in 1..Len(st.combinations) :
                    /\ st.combinations[i].color # ""
                    /\ Trim(st.combinations[i].color) = Trim(st.selectedColor)
                    /\ st.combinations[i].size # ""
                    /\ Trim(st.combinations[i].size) = Trim(st.selectedSize)})

\* #updateSelectedOption(target): target is the input of dimension d with value v.
UpdateSelectedOption(st, d, v) ==
  LET i == IndexOf(Inputs[d], v)
      r == UpdatePill(st.pillCurrent[d], st.pillPrevious[d], st.checkedIndices[d], i)
  IN  [st EXCEPT !.pillCurrent[d] = r.cur, !.pillPrevious[d] = r.prev,
                 !.checkedIndices[d] = r.idx, !.checked[d] = v]

\* #syncFromUrl, reading window.location (loc.variant = "" when the parameter is absent).
SyncFromUrl(st, loc) ==
  LET m == FindFirst({i \in 1..Len(st.combinations) :
                        /\ st.combinations[i].variantId # ""
                        /\ Trim(st.combinations[i].variantId) = Trim(loc.variant)})
  IN  IF loc.variant = "" \/ m = 0 THEN st
      ELSE
        LET c == st.combinations[m]
            s1 == IF c.productUrl # "" /\ c.productUrl # st.currentProductUrl
                  THEN [st EXCEPT !.currentProductUrl = c.productUrl] ELSE st
            newColor == Trim(c.color)
            newSize == Trim(c.size)
            colorChanged == newColor # "" /\ newColor # s1.selectedColor
            s2 == IF colorChanged
                  THEN LET t == [s1 EXCEPT !.selectedColor = newColor]
                       IN IF IndexOf(Inputs.color, newColor) # 0
                          THEN UpdateSelectedOption(t, "color", newColor) ELSE t
                  ELSE s1
            sizeChanged == newSize # "" /\ newSize # s2.selectedSize
            s3 == IF sizeChanged
                  THEN LET t == [s2 EXCEPT !.selectedSize = newSize]
                       IN IF IndexOf(Inputs.size, newSize) # 0
                          THEN UpdateSelectedOption(t, "size", newSize) ELSE t
                  ELSE s2
        IN IF colorChanged \/ sizeChanged THEN UpdateFiltering(s3) ELSE s3

\* radios.findIndex(radio => radio.dataset.currentChecked === 'true'), as the
\* initial checked-index history of one option container.
InitialCheckedIndices(cur, d) ==
  LET hit == {i \in 1..Len(Inputs[d]) : i \in cur}
  IN IF hit = {} THEN <<>> ELSE <<FindFirst(hit)>>

\* #reinitializeAfterMorph: re-read the element's data attributes and radios.
ReinitializeAfterMorph(st, loc) ==
  LET s1 == [st EXCEPT !.combinations = ParsedCombinations(st.dataset.combinations),
                       !.selectedColor = st.dataset.currentColor,
                       !.selectedSize = st.dataset.currentSize,
                       !.checkedIndices = [d \in Dims |-> InitialCheckedIndices(st.pillCurrent[d], d)]]
  IN SyncFromUrl(UpdateFiltering(s1), loc)

\* The picker markup of the product page of combination t as the server renders
\* it: data attributes, checked radios, pill marks and availability marks.
ServerMarkup(st, t) ==
  LET s1 == [st EXCEPT !.dataset = [combinations |-> t, currentColor |-> Family[t].color,
                                    currentSize |-> Family[t].size, productId |-> Family[t].productId],
                       !.checked = [color |-> Family[t].color, size |-> Family[t].size],
                       !.pillCurrent = [color |-> {IndexOf(Inputs.color, Family[t].color)},
                                        size |-> {IndexOf(Inputs.size, Family[t].size)}],
                       !.pillPrevious = [color |-> {}, size |-> {}]]
      view == [s1 EXCEPT !.combinations = ParsedCombinations(t),
                         !.selectedColor = Family[t].color, !.selectedSize = Family[t].size]
  IN [s1 EXCEPT !.unavailable = UpdateFiltering(view).unavailable,
                !.disabled = UpdateFiltering(view).disabled]

\* VariantPickerCLDual.connectedCallback on the server-rendered page of combination t.
DualConnected(t, loc) ==
  LET blank == [combinations |-> <<>>, selectedColor |-> "", selectedSize |-> "",
                currentProductUrl |-> loc.path,
                checkedIndices |-> [d \in Dims |-> <<>>],
                dataset |-> [combinations |-> t, currentColor |-> "", currentSize |-> "", productId |-> ""],
                checked |-> [d \in Dims |-> ""], disabled |-> [d \in Dims |-> {}],
                unavailable |-> [d \in Dims |-> {}],
                pillCurrent |-> [d \in Dims |-> {}], pillPrevious |-> [d \in Dims |-> {}]]
  IN ReinitializeAfterMorph(ServerMarkup(blank, t), loc)

\* #handleVariantUpdate for an event of another component that carries no html:
\* id is event.detail.resource.id ("" when absent).
HandleVariantUpdate(st, id, loc) ==
  LET m == FindFirst({i \in 1..Len(st.combinations) :
                        /\ st.combinations[i].variantId # ""
                        /\ Trim(st.combinations[i].variantId) = Trim(id)})
  IN  IF id = "" \/ m = 0 THEN SyncFromUrl(st, loc)
      ELSE
        LET c == st.combinations[m]
            s1 == IF c.productUrl # "" /\ c.productUrl # st.currentProductUrl
                  THEN [st EXCEPT !.currentProductUrl = c.productUrl] ELSE st
            newColor == Trim(c.color)
            newSize == Trim(c.size)
            colorChanged == newColor # "" /\ newColor # s1.selectedColor
            s2 == IF colorChanged
                  THEN LET t == [s1 EXCEPT !.selectedColor = newColor]
                       IN IF IndexOf(Inputs.color, newColor) # 0
                          THEN UpdateSelectedOption(t, "color", newColor) ELSE t
                  ELSE s1
            sizeChanged == newSize # "" /\ newSize # s2.selectedSize
            s3 == IF sizeChanged
                  THEN LET t == [s2 EXCEPT !.selectedSize = newSize]
                       IN IF IndexOf(Inputs.size, newSize) # 0
                          THEN UpdateSelectedOption(t, "size", newSize) ELSE t
                  ELSE s2
        IN IF colorChanged \/ sizeChanged THEN UpdateFiltering(s3) ELSE s3

\* ------------------------------------------------------------ the page

VARIABLES
  kind,             \* the picker class the product page hosts
  loaded,           \* the document is alive (FALSE once the browser left it)
  page,             \* the product page <main> shows: 1..NFamily, ErrPage, or 0 (a collection page)
  picker,           \* the picker element: private fields and DOM subtree
  abortController,  \* #abortController: the fetch it belongs to (0: undefined)
  fetches,          \* every fetch the picker issued, in order
  rafQ,             \* requestAnimationFrame callbacks, in order
  yieldQ,           \* requestYieldCallback callbacks, in order
  timerQ,           \* pending setTimeout(100) callbacks
  location,         \* window.location
  hist,             \* the session history entries
  histIdx,          \* the current session history entry
  hashNavs,         \* in-page anchor navigations made
  log,              \* what happened, in order: events, fetches, morphs, URL writes
  npicks,           \* user picks made
  nfailures,        \* fetches that ended other than with the product page
  lastResolved      \* the combination the most recent pick resolved (0: none)

vars == <<kind, loaded, page, picker, abortController, fetches, rafQ, yieldQ, timerQ,
          location, hist, histIdx, hashNavs, log, npicks, nfailures, lastResolved>>

\* A history entry of another document (the page the shopper came from).
External == [path |-> "/", variant |-> "", hash |-> FALSE]

\* The picker element is in the document.
Connected == loaded /\ page # ErrPage

\* No callback is queued and no fetch is pending.
Idle == rafQ = <<>> /\ yieldQ = <<>> /\ timerQ = 0
        /\ \A f \in 1..Len(fetches) : fetches[f].st # "pending"

\* An abort() that leaves the pending fetch running.
AbortNothing(fs, c) == fs

\* A fetch start that does not abort the previous fetch.
StartFetchKeepsPrevious(fs, c, r) == Append(fs, r)

\* AbortController.abort() on the controller of fetch c: a pending fetch rejects
\* with AbortError (its catch handler runs in the same task); a settled one is left.
Abort(fs, c) ==
  IF c # 0 /\ fs[c].st = "pending" THEN [fs EXCEPT ![c].st = "aborted"] ELSE fs

\* Abort any pending request, then fetch(productUrl, {signal}): the new fetch r
\* joins the picker's fetches.
StartFetch(fs, c, r) == Append(Abort(fs, c), r)

\* The catch handler of VariantPicker.fetchUpdatedSection for the fetch c that a
\* new request aborts: console.warn('Fetch aborted by user'). It runs once the
\* handler that aborted has returned.
AbortWarning(fs, c) ==
  IF c # 0 /\ fs[c].st = "pending"
  THEN << [e |-> "AbortWarning", pick |-> fs[c].pick, f |-> c, id |-> ""] >>
  ELSE <<>>

\* What a pick finds when its handler starts: the selection, the checked radios,
\* the page and the URL.
Snapshot ==
  IF kind = "dual"
  THEN [selectedColor |-> picker.selectedColor, selectedSize |-> picker.selectedSize,
        checked |-> picker.checked, page |-> page, location |-> location]
  ELSE [checked |-> picker.checked, page |-> page, location |-> location]

\* A change handler in which checking a size forgets the color chosen before it.
DualPickSizeForgetsColor(d, v) ==
  /\ kind = "dual" /\ Connected /\ npicks < MaxPicks
  /\ v \notin picker.disabled[d]
  /\ picker.checked[d] # v
  /\ LET s1 == [picker EXCEPT !.checked[d] = v,
                              !.selectedColor = IF d = "color" THEN v ELSE "",
                              !.selectedSize = IF d = "size" THEN v ELSE @]
         both == s1.selectedColor # "" /\ s1.selectedSize # ""
         m == FindSelected(s1)
     IN /\ npicks' = npicks + 1
        /\ lastResolved' = IF both THEN m ELSE 0
        /\ IF both /\ m # 0
           THEN /\ picker' = s1
                /\ log' = Append(log, [e |-> "Selected", pick |-> npicks + 1, f |-> 0,
                                       id |-> s1.combinations[m].variantId])
                /\ rafQ' = Append(rafQ, [d |-> d, v |-> v, pick |-> npicks + 1, before |-> Snapshot])
           ELSE /\ picker' = UpdateFiltering(UpdateSelectedOption(s1, d, v))
                /\ UNCHANGED <<log, rafQ>>
  /\ UNCHANGED <<kind, loaded, page, abortController, fetches, yieldQ, timerQ,
                 location, hist, histIdx, hashNavs, nfailures>>

\* #handleSelectionChange: the shopper checks the enabled radio v of dimension d.
DualPick(d, v) ==
  /\ kind = "dual" /\ Connected /\ npicks < MaxPicks
  /\ v \notin picker.disabled[d]
  /\ picker.checked[d] # v
  /\ LET s1 == [picker EXCEPT !.checked[d] = v,
                              !.selectedColor = IF d = "color" THEN v ELSE @,
                              !.selectedSize = IF d = "size" THEN v ELSE @]
         both == s1.selectedColor # "" /\ s1.selectedSize # ""
         m == FindSelected(s1)
     IN /\ npicks' = npicks + 1
        /\ lastResolved' = IF both THEN m ELSE 0
        /\ IF both /\ m # 0
           THEN /\ picker' = s1
                /\ log' = Append(log, [e |-> "Selected", pick |-> npicks + 1, f |-> 0,
                                       id |-> s1.combinations[m].variantId])
                /\ rafQ' = Append(rafQ, [d |-> d, v |-> v, pick |-> npicks + 1, before |-> Snapshot])
           ELSE /\ picker' = UpdateFiltering(UpdateSelectedOption(s1, d, v))
                /\ UNCHANGED <<log, rafQ>>
  /\ UNCHANGED <<kind, loaded, page, abortController, fetches, yieldQ, timerQ,
                 location, hist, histIdx, hashNavs, nfailures>>

\* The animation-frame callback of #handleSelectionChange: pill state, filtering,
\* then #navigateToMatchingProduct (fetch, and the deferred history.replaceState).
DualFrame ==
  /\ kind = "dual" /\ Connected /\ rafQ # <<>>
  /\ LET h == Head(rafQ)
         s2 == UpdateFiltering(UpdateSelectedOption(picker, h.d, h.v))
         m == FindToNavigate(s2)
     IN /\ picker' = s2
        /\ rafQ' = Tail(rafQ)
        /\ IF m = 0
           THEN UNCHANGED <<fetches, abortController, yieldQ, log>>
           ELSE LET c == s2.combinations[m]
                    url == [path |-> c.productUrl, variant |-> c.variantId, hash |-> FALSE]
                    f == Len(fetches) + 1
                IN /\ fetches' = StartFetch(fetches, abortController,
                                            [comb |-> m, url |-> url, main |-> TRUE,
                                             isDifferentProduct |-> s2.currentProductUrl # c.productUrl,
                                             pick |-> h.pick, upto |-> npicks, before |-> h.before,
                                             st |-> "pending", status |-> 0])
                   /\ abortController' = f
                   /\ log' = Append(log, [e |-> "Fetch", pick |-> h.pick, f |-> f, id |-> c.variantId])
                   /\ yieldQ' = IF url # location
                                THEN Append(yieldQ, [t |-> "replaceState", url |-> url, pick |-> h.pick])
                                ELSE yieldQ
  /\ UNCHANGED <<kind, loaded, page, timerQ, location, hist, histIdx, hashNavs, npicks, nfailures, lastResolved>>

\* What a response body can be: the product page asked for, the store's error
\* page (it has a <main>, no picker and no product form), or a body with no <main>.
Bodies == {"page", "errorMain", "noMain"}

\* The HTTP status a body comes with.
StatusOf(body) == IF body = "page" THEN 200 ELSE 500

\* A response handler that dispatches the event without having morphed.
UpdateWithoutMorph(f, body, productIdBefore) ==
  << [e |-> "Updated", pick |-> fetches[f].pick, f |-> f, id |-> "", newProduct |-> ""] >>

\* The entries the response handler of #fetchAndMorphProduct appends to the log
\* for fetch f: the morph of <main>, then the VariantUpdateEvent it dispatches.
\* The handler never reads response.ok or response.status.
MorphAndUpdate(f, body, productIdBefore) ==
  LET r == fetches[f]
      resourceId == IF body = "page" THEN Family[r.comb].variantId ELSE ""
      newProductId == IF body = "page" THEN Family[r.comb].productId ELSE productIdBefore
      newProduct == IF r.isDifferentProduct /\ newProductId # "" /\ newProductId # productIdBefore
                    THEN newProductId ELSE ""
  IN << [e |-> "Morph", pick |-> r.pick, f |-> f, id |-> resourceId],
        [e |-> "Updated", pick |-> r.pick, f |-> f, id |-> resourceId, newProduct |-> newProduct] >>

\* #handleVariantUpdate on the Updated event the picker itself dispatched: what it
\* leaves in the yield queue q (event.target === this: it returns at once).
OwnVariantUpdate(q, loc, pk) == q

\* The response of fetch f arrives with the given body: the .then chain of
\* VariantPickerCLDual.#fetchAndMorphProduct.
DualResponse(f, body) ==
  /\ kind = "dual" /\ Connected
  /\ f \in 1..Len(fetches) /\ fetches[f].st = "pending"
  /\ body # "page" => nfailures < MaxFailures
  /\ nfailures' = IF body = "page" THEN nfailures ELSE nfailures + 1
  /\ fetches' = [fetches EXCEPT ![f].st = "done", ![f].status = StatusOf(body)]
  /\ IF body = "noMain"
     THEN UNCHANGED <<page, picker, log, yieldQ>>
     ELSE /\ page' = IF body = "page" THEN fetches[f].comb ELSE ErrPage
          /\ picker' = [(IF body = "page" THEN ServerMarkup(picker, fetches[f].comb) ELSE picker)
                          EXCEPT !.currentProductUrl = fetches[f].url.path]
          /\ log' = log \o MorphAndUpdate(f, body, picker.dataset.productId)
          /\ yieldQ' = Append(OwnVariantUpdate(yieldQ, location, fetches[f].pick),
                               [t |-> "reinit", url |-> fetches[f].url, pick |-> fetches[f].pick])
  /\ UNCHANGED <<kind, loaded, abortController, rafQ, timerQ, location, hist, histIdx,
                 hashNavs, npicks, lastResolved>>

\* ------------------------------------------------------- VariantPickerCL
\* A CL picker shows one radio per listed product of the family; the
\* record holds #currentProductUrl, the element's dataset and the checked radio.

\* The products the CL picker of the page lists (one radio each): the available
\* products of the family.
CLRadios == {i \in 1..NFamily : Family[i].available}

\* data-product-url of the radio of product i.
CLProductUrl(i) == [path |-> Family[i].productUrl, variant |-> Family[i].variantId, hash |-> FALSE]

\* VariantPickerCL.connectedCallback on the server-rendered page of product t.
CLConnected(t) ==
  [currentProductUrl |-> Family[t].productUrl,
   dataset |-> [productId |-> Family[t].productId, productUrl |-> Family[t].productUrl],
   checked |-> t]

\* #handleProductSelection: the shopper checks the radio of product i.
CLPick(i) ==
  /\ kind = "cl" /\ Connected /\ npicks < MaxPicks
  /\ i \in CLRadios /\ picker.checked # i
  /\ npicks' = npicks + 1
  /\ lastResolved' = i
  /\ picker' = [picker EXCEPT !.checked = i]
  /\ log' = Append(log, [e |-> "Selected", pick |-> npicks + 1, f |-> 0, id |-> Family[i].variantId])
  /\ rafQ' = Append(rafQ, [i |-> i, pick |-> npicks + 1, before |-> Snapshot])
  /\ yieldQ' = IF CLProductUrl(i) # location
               THEN Append(yieldQ, [t |-> "replaceState", url |-> CLProductUrl(i), pick |-> npicks + 1])
               ELSE yieldQ
  /\ UNCHANGED <<kind, loaded, page, abortController, fetches, timerQ,
                 location, hist, histIdx, hashNavs, nfailures>>

\* The animation-frame callback of #handleProductSelection: #fetchAndMorphProduct.
CLFrame ==
  /\ kind = "cl" /\ Connected /\ rafQ # <<>>
  /\ LET h == Head(rafQ)
         f == Len(fetches) + 1
     IN /\ rafQ' = Tail(rafQ)
        /\ fetches' = StartFetch(fetches, abortController,
                                 [comb |-> h.i, url |-> CLProductUrl(h.i), main |-> TRUE,
                                  isDifferentProduct |-> picker.currentProductUrl # Family[h.i].productUrl,
                                  pick |-> h.pick, upto |-> npicks, before |-> h.before,
                                  st |-> "pending", status |-> 0])
        /\ abortController' = f
        /\ log' = Append(log, [e |-> "Fetch", pick |-> h.pick, f |-> f, id |-> Family[h.i].variantId])
  /\ UNCHANGED <<kind, loaded, page, picker, yieldQ, timerQ, location, hist, histIdx, hashNavs,
                 npicks, nfailures, lastResolved>>

\* The response of fetch f arrives with the given body: the .then chain of
\* VariantPickerCL.#fetchAndMorphProduct.
CLResponse(f, body) ==
  /\ kind = "cl" /\ Connected
  /\ f \in 1..Len(fetches) /\ fetches[f].st = "pending"
  /\ body # "page" => nfailures < MaxFailures
  /\ nfailures' = IF body = "page" THEN nfailures ELSE nfailures + 1
  /\ fetches' = [fetches EXCEPT ![f].st = "done", ![f].status = StatusOf(body)]
  /\ IF body = "noMain"
     THEN UNCHANGED <<page, picker, log>>
     ELSE /\ page' = IF body = "page" THEN fetches[f].comb ELSE ErrPage
          /\ picker' = [(IF body = "page" THEN CLConnected(fetches[f].comb) ELSE picker)
                          EXCEPT !.currentProductUrl = fetches[f].url.path]
          /\ log' = log \o MorphAndUpdate(f, body, picker.dataset.productId)
  /\ UNCHANGED <<kind, loaded, abortController, rafQ, yieldQ, timerQ, location, hist, histIdx,
                 hashNavs, npicks, lastResolved>>

\* ------------------------------- VariantPicker, SwatchesVariantPickerComponent
\* Both hold one fieldset of radios. The record holds #pendingRequestUrl,
\* #checkedIndices (one entry per fieldset that had a marked radio on connect),
\* pendingVariantId, the element's dataset, the checked radio, the pill marks and,
\* for a product card, the href of the card's link ("" is undefined).

\* The radios of the fieldset, in DOM order, with their data attributes; product is
\* the product page (an index of Family) the option's request is answered with.
Options(k) ==
  IF k = "vp"
  THEN << [optionValueId |-> "o1", variantId |-> "V1", connectedProductUrl |-> "/products/u1",
           isSwatch |-> FALSE, productId |-> "", productUrl |-> "", availableCount |-> 1,
           firstAvailableOrFirstVariantId |-> "", product |-> 1],
          [optionValueId |-> "o2", variantId |-> "V1b", connectedProductUrl |-> "/products/u1",
           isSwatch |-> FALSE, productId |-> "", productUrl |-> "", availableCount |-> 1,
           firstAvailableOrFirstVariantId |-> "", product |-> 1],
          [optionValueId |-> "o3", variantId |-> "V2", connectedProductUrl |-> "/products/u2",
           isSwatch |-> FALSE, productId |-> "", productUrl |-> "", availableCount |-> 1,
           firstAvailableOrFirstVariantId |-> "", product |-> 2] >>
  ELSE << [optionValueId |-> "s1", variantId |-> "W1", connectedProductUrl |-> "",
           isSwatch |-> TRUE, productId |-> "", productUrl |-> "", availableCount |-> 1,
           firstAvailableOrFirstVariantId |-> "W1", product |-> 1],
          [optionValueId |-> "s2", variantId |-> "W2", connectedProductUrl |-> "",
           isSwatch |-> TRUE, productId |-> "", productUrl |-> "", availableCount |-> 1,
           firstAvailableOrFirstVariantId |-> "W2", product |-> 1],
          [optionValueId |-> "", variantId |-> "V2", connectedProductUrl |-> "",
           isSwatch |-> TRUE, productId |-> "P2", productUrl |-> "/products/u2", availableCount |-> 1,
           firstAvailableOrFirstVariantId |-> "V2", product |-> 2],
          [optionValueId |-> "", variantId |-> "V3", connectedProductUrl |-> "",
           isSwatch |-> TRUE, productId |-> "P3", productUrl |-> "/products/u3", availableCount |-> 0,
           firstAvailableOrFirstVariantId |-> "V3", product |-> 3] >>

\* The picker markup the server renders for option i selected: data attributes,
\* the checked radio and the pill marks.
PickerMarkup(st, i) ==
  [st EXCEPT !.dataset = [productId |-> Family[Options(kind)[i].product].productId,
                          productUrl |-> Family[Options(kind)[i].product].productUrl],
             !.checked = i, !.pillCurrent = {i}, !.pillPrevious = {}]

\* VariantPicker.connectedCallback on the server-rendered markup of option i.
VPConnected(i) ==
  LET blank == [pendingRequestUrl |-> "", checkedIndices |-> <<>>, pendingVariantId |-> "",
                dataset |-> [productId |-> "", productUrl |-> ""], checked |-> 0,
                pillCurrent |-> {}, pillPrevious |-> {},
                cardLink |-> [path |-> Family[Options(kind)[i].product].productUrl,
                              variant |-> "", hash |-> FALSE]]
      m == PickerMarkup(blank, i)
  IN [m EXCEPT !.checkedIndices = IF m.pillCurrent = {} THEN <<>>
                                  ELSE << <<FindFirst(m.pillCurrent)>> >>]

\* VariantPicker.updateSelectedOption(target): target is radio i of fieldset 0.
VPUpdateSelectedOption(st, i) ==
  IF Len(st.checkedIndices) >= 1
  THEN LET r == UpdatePill(st.pillCurrent, st.pillPrevious, st.checkedIndices[1], i)
       IN [st EXCEPT !.pillCurrent = r.cur, !.pillPrevious = r.prev,
                     !.checkedIndices[1] = r.idx, !.checked = i]
  ELSE [st EXCEPT !.checked = i]

\* VariantPicker.variantChanged for a change event on radio i (pk: the user pick it
\* stems from): the picker, fetches, controller, yield queue and log it leaves.
VariantChanged(st, i, pk) ==
  LET opt == Options(kind)[i]
      s1 == VPUpdateSelectedOption(st, i)
      isOnProductPage == kind = "vp"
      currentUrl == st.dataset.productUrl
      newUrl == opt.connectedProductUrl
      loadsNewProduct == isOnProductPage /\ newUrl # "" /\ newUrl # currentUrl
      productUrl == IF newUrl # "" THEN newUrl
                    ELSE IF s1.pendingRequestUrl # "" THEN s1.pendingRequestUrl
                    ELSE s1.dataset.productUrl
      url1 == IF isOnProductPage THEN [location EXCEPT !.variant = opt.variantId] ELSE location
      url == IF loadsNewProduct THEN [url1 EXCEPT !.path = newUrl] ELSE url1
      f == Len(fetches) + 1
  IN [picker |-> [s1 EXCEPT !.pendingRequestUrl = productUrl],
      fetches |-> StartFetch(fetches, abortController,
                             [comb |-> i, url |-> [path |-> productUrl, variant |-> "", hash |-> FALSE],
                              main |-> loadsNewProduct, isDifferentProduct |-> loadsNewProduct,
                              pick |-> pk, upto |-> pk, before |-> Snapshot,
                              st |-> "pending", status |-> 0]),
      abortController |-> f,
      log |-> log \o << [e |-> "Selected", pick |-> pk, f |-> 0, id |-> opt.optionValueId],
                        [e |-> "Fetch", pick |-> pk, f |-> f, id |-> opt.variantId] >>
                  \o AbortWarning(fetches, abortController),
      yieldQ |-> IF url # location
                 THEN Append(yieldQ, [t |-> "replaceState", url |-> url, pick |-> pk])
                 ELSE yieldQ]

\* The shopper checks radio i of a VariantPicker on the product page.
VPPick(i) ==
  /\ kind = "vp" /\ Connected /\ npicks < MaxPicks
  /\ picker.checked # i
  /\ LET r == VariantChanged(picker, i, npicks + 1)
     IN /\ picker' = r.picker /\ fetches' = r.fetches /\ abortController' = r.abortController
        /\ log' = r.log /\ yieldQ' = r.yieldQ
  /\ npicks' = npicks + 1
  /\ lastResolved' = i
  /\ UNCHANGED <<kind, loaded, page, rafQ, timerQ, location, hist, histIdx, hashNavs, nfailures>>

\* SwatchesVariantPickerComponent.variantChanged: the shopper checks swatch i of a
\* product card.
SWPick(i) ==
  /\ kind = "sw" /\ Connected /\ npicks < MaxPicks
  /\ picker.checked # i
  /\ npicks' = npicks + 1
  /\ lastResolved' = i
  /\ LET opt == Options(kind)[i]
         connectedProductUrl ==
           IF opt.connectedProductUrl # ""
           THEN [path |-> opt.connectedProductUrl, variant |-> "", hash |-> FALSE]
           ELSE [path |-> opt.productUrl,
                 variant |-> IF opt.productUrl # "" THEN opt.variantId ELSE "", hash |-> FALSE]
         currentProductUrl == picker.dataset.productUrl
         isDifferentProduct ==
           \/ opt.productId # "" /\ opt.productId # picker.dataset.productId
           \/ connectedProductUrl.path # "" /\ connectedProductUrl.path # currentProductUrl
         productUrl == IF connectedProductUrl.path # "" THEN connectedProductUrl.path
                       ELSE picker.dataset.productUrl
         f == Len(fetches) + 1
     IN IF opt.isSwatch /\ opt.productId # "" /\ opt.availableCount > 0
           /\ opt.firstAvailableOrFirstVariantId # ""
        THEN /\ picker' = [VPUpdateSelectedOption(picker, i)
                             EXCEPT !.pendingVariantId = opt.firstAvailableOrFirstVariantId]
             /\ fetches' = StartFetch(fetches, abortController,
                                      [comb |-> i,
                                       url |-> [path |-> productUrl,
                                                variant |-> opt.firstAvailableOrFirstVariantId,
                                                hash |-> FALSE],
                                       main |-> isDifferentProduct,
                                       isDifferentProduct |-> isDifferentProduct,
                                       pick |-> npicks + 1, upto |-> npicks + 1, before |-> Snapshot,
                                       st |-> "pending", status |-> 0])
             /\ abortController' = f
             /\ log' = Append(log, [e |-> "Fetch", pick |-> npicks + 1, f |-> f,
                                    id |-> opt.firstAvailableOrFirstVariantId])
                         \o AbortWarning(fetches, abortController)
             /\ UNCHANGED yieldQ
        ELSE IF isDifferentProduct
        THEN /\ picker' = [VPUpdateSelectedOption(picker, i)
                             EXCEPT !.cardLink = IF connectedProductUrl.path # ""
                                                 THEN connectedProductUrl ELSE @]
             /\ UNCHANGED <<fetches, abortController, log, yieldQ>>
        ELSE LET r == VariantChanged(picker, i, npicks + 1)
             IN /\ picker' = r.picker /\ fetches' = r.fetches
                /\ abortController' = r.abortController
                /\ log' = r.log /\ yieldQ' = r.yieldQ
  /\ UNCHANGED <<kind, loaded, page, rafQ, timerQ, location, hist, histIdx, hashNavs, nfailures>>

\* SwatchesVariantPickerComponent.#handleCardVariantUrlUpdate, the picker's own
\* listener for Updated events (it runs on the events the picker itself dispatches):
\* a pending variant id goes into the card link and is cleared.
HandleCardVariantUrlUpdate(st) ==
  IF st.pendingVariantId # ""
  THEN [st EXCEPT !.cardLink = [@ EXCEPT !.variant = st.pendingVariantId], !.pendingVariantId = ""]
  ELSE st

\* The response of fetch f arrives with the given body: the .then chain of
\* VariantPicker.fetchUpdatedSection (updateMain or updateVariantPicker, then the
\* VariantUpdateEvent and, in a product card, #handleCardVariantUrlUpdate).
\* A "page" body is the product page (VariantPicker) or the rendered product-card
\* section, which has no <main> (SwatchesVariantPickerComponent).
VPResponse(f, body) ==
  /\ kind \in {"vp", "sw"} /\ Connected
  /\ f \in 1..Len(fetches) /\ fetches[f].st = "pending"
  /\ body # "page" => nfailures < MaxFailures
  /\ nfailures' = IF body = "page" THEN nfailures ELSE nfailures + 1
  /\ fetches' = [fetches EXCEPT ![f].st = "done", ![f].status = StatusOf(body)]
  /\ LET r == fetches[f]
         opt == Options(kind)[r.comb]
         s0 == [picker EXCEPT !.pendingRequestUrl = ""]
         fromBody == IF body # "page" THEN ""
                     ELSE IF r.url.variant # "" THEN r.url.variant ELSE opt.variantId
         fromOption == IF s0.checked # 0 THEN Options(kind)[s0.checked].variantId ELSE ""
         found == IF fromBody # "" THEN fromBody ELSE fromOption
         variantId == IF s0.pendingVariantId # "" THEN s0.pendingVariantId ELSE found
         hasMain == (kind = "vp" /\ body = "page") \/ body = "errorMain"
         newProductId == Family[opt.product].productId
         newProduct == IF newProductId # s0.dataset.productId THEN newProductId ELSE ""
         s1 == IF body = "page" THEN PickerMarkup(s0, r.comb) ELSE s0
         selectedOptionId == IF s1.checked # 0 THEN Options(kind)[s1.checked].optionValueId ELSE ""
     IN IF variantId = ""
        THEN /\ picker' = s0 /\ UNCHANGED <<page, log>>
        ELSE IF r.main
        THEN IF hasMain
             THEN /\ page' = IF body = "page" THEN opt.product ELSE ErrPage
                  /\ picker' = s1
                  /\ log' = Append(log, [e |-> "Morph", pick |-> r.pick, f |-> f, id |-> fromBody])
             ELSE /\ picker' = s0
                  /\ log' = Append(log, [e |-> "Error", pick |-> r.pick, f |-> f, id |-> ""])
                  /\ UNCHANGED page
        ELSE /\ UNCHANGED page
             /\ IF s1.checked = 0
                THEN /\ picker' = s1
                     /\ log' = log \o (IF body = "page"
                                        THEN << [e |-> "Morph", pick |-> r.pick, f |-> f, id |-> fromBody] >>
                                        ELSE << [e |-> "Warn", pick |-> r.pick, f |-> f, id |-> ""] >>)
                ELSE IF selectedOptionId = ""
                THEN /\ picker' = s1
                     /\ log' = log \o (IF body = "page"
                                        THEN << [e |-> "Morph", pick |-> r.pick, f |-> f, id |-> fromBody] >>
                                        ELSE << [e |-> "Warn", pick |-> r.pick, f |-> f, id |-> ""] >>)
                                   \o << [e |-> "Error", pick |-> r.pick, f |-> f, id |-> ""] >>
                ELSE /\ picker' = [(IF kind = "sw" THEN HandleCardVariantUrlUpdate(s1) ELSE s1)
                                      EXCEPT !.pendingVariantId = ""]
                     /\ log' = log \o (IF body = "page"
                                        THEN << [e |-> "Morph", pick |-> r.pick, f |-> f, id |-> fromBody] >>
                                        ELSE << [e |-> "Warn", pick |-> r.pick, f |-> f, id |-> ""] >>)
                                   \o << [e |-> "Updated", pick |-> r.pick, f |-> f, id |-> variantId,
                                          newProduct |-> IF body = "page" THEN newProduct ELSE ""] >>
  /\ UNCHANGED <<kind, loaded, abortController, rafQ, yieldQ, timerQ, location, hist, histIdx,
                 hashNavs, npicks, lastResolved>>

\* VariantPicker.#syncFromUrl after the URL became loc: a change event on the option
\* of another product (variantChanged runs), or the option of the variant marked.
VPSyncFromUrl(st, loc) ==
  LET opts == Options(kind)
      unchanged == [picker |-> st, fetches |-> fetches, abortController |-> abortController,
                    log |-> log, yieldQ |-> yieldQ]
      byUrl == {i \in 1..Len(opts) :
                  /\ opts[i].connectedProductUrl = loc.path
                  /\ (loc.variant # "" => opts[i].variantId = loc.variant)}
      byVariant == {i \in 1..Len(opts) : opts[i].variantId = loc.variant}
  IN IF st.dataset.productUrl # "" /\ loc.path # st.dataset.productUrl
     THEN IF byUrl = {} THEN unchanged
          ELSE VariantChanged([st EXCEPT !.checked = FindFirst(byUrl)], FindFirst(byUrl), npicks)
     ELSE IF loc.variant = "" \/ byVariant = {} THEN unchanged
     ELSE [unchanged EXCEPT !.picker =
             VPUpdateSelectedOption(st, FindFirst(byVariant))]

\* The fetch f fails in the network: the promise rejects, the catch handler runs
\* (silent in variant-picker-cl.js, console.error in VariantPicker).
FetchFails(f) ==
  /\ Connected
  /\ f \in 1..Len(fetches) /\ fetches[f].st = "pending"
  /\ nfailures < MaxFailures
  /\ nfailures' = nfailures + 1
  /\ fetches' = [fetches EXCEPT ![f].st = "failed"]
  /\ log' = IF kind \in {"vp", "sw"}
            THEN Append(log, [e |-> "Error", pick |-> fetches[f].pick, f |-> f, id |-> ""])
            ELSE log
  /\ UNCHANGED <<kind, loaded, page, picker, abortController, rafQ, yieldQ, timerQ,
                 location, hist, histIdx, hashNavs, npicks, lastResolved>>

\* The response of an aborted fetch arrives: the browser drops it.
ResponseAfterAbort(f) ==
  /\ loaded
  /\ f \in 1..Len(fetches) /\ fetches[f].st = "aborted"
  /\ fetches' = [fetches EXCEPT ![f].st = "dropped"]
  /\ UNCHANGED <<kind, loaded, page, picker, abortController, rafQ, yieldQ, timerQ,
                 location, hist, histIdx, hashNavs, log, npicks, nfailures, lastResolved>>

\* One requestYieldCallback callback runs: a deferred history.replaceState, or the
\* post-morph lookup of the picker element and its #reinitializeAfterMorph.
YieldRun ==
  /\ loaded /\ yieldQ # <<>>
  /\ LET y == Head(yieldQ)
     IN /\ yieldQ' = Tail(yieldQ)
        /\ IF y.t = "replaceState"
           THEN /\ location' = y.url
                /\ hist' = [hist EXCEPT ![histIdx] = y.url]
                /\ log' = Append(log, [e |-> "Url", pick |-> y.pick, f |-> 0, id |-> y.url.variant])
                /\ UNCHANGED <<picker, timerQ>>
           ELSE /\ IF page # ErrPage \/ y.t = "reinitSelf"
                   THEN /\ picker' = ReinitializeAfterMorph(picker, location)
                        /\ UNCHANGED timerQ
                   ELSE /\ timerQ' = timerQ + 1
                        /\ UNCHANGED picker
                /\ UNCHANGED <<location, hist, log>>
  /\ UNCHANGED <<kind, loaded, page, abortController, fetches, rafQ, histIdx, hashNavs,
                 npicks, nfailures, lastResolved>>

\* The variant ids an Updated event of another component can carry: those of the
\* family, one of a product outside it, or none.
ExternalIds == {Family[i].variantId : i \in 1..NFamily} \cup {"V9", ""}

\* #handleVariantUpdate: an Updated event dispatched by another component of the
\* page (event.target is not the picker) reaches the picker's document listener.
\* With html in its detail the picker re-reads itself in a yield callback;
\* without, it syncs to the combination of the event's variant id.
ExternalUpdated(id, html) ==
  /\ kind = "dual" /\ Connected
  /\ Cardinality({i \in 1..Len(log) : log[i].e = "External"}) < MaxExternal
  /\ log' = Append(log, [e |-> "External", pick |-> npicks, f |-> 0, id |-> id, html |-> html])
  /\ IF html
     THEN /\ yieldQ' = Append(yieldQ, [t |-> "reinitSelf", url |-> location, pick |-> npicks])
          /\ UNCHANGED picker
     ELSE /\ picker' = HandleVariantUpdate(picker, id, location)
          /\ UNCHANGED yieldQ
  /\ UNCHANGED <<kind, loaded, page, abortController, fetches, rafQ, timerQ,
                 location, hist, histIdx, hashNavs, npicks, nfailures, lastResolved>>

\* The setTimeout(100) fallback of the post-morph lookup runs.
TimerRun ==
  /\ loaded /\ timerQ > 0
  /\ timerQ' = timerQ - 1
  /\ picker' = IF page # ErrPage THEN ReinitializeAfterMorph(picker, location) ELSE picker
  /\ UNCHANGED <<kind, loaded, page, abortController, fetches, rafQ, yieldQ, location,
                 hist, histIdx, hashNavs, log, npicks, nfailures, lastResolved>>

\* The shopper follows an in-page anchor: a new history entry of the same document.
\* (The shopper uses links and the history only while the page is idle.)
HashNav ==
  /\ loaded /\ Idle /\ hashNavs < MaxHashNav /\ ~location.hash
  /\ hashNavs' = hashNavs + 1
  /\ location' = [location EXCEPT !.hash = TRUE]
  /\ hist' = Append(SubSeq(hist, 1, histIdx), [location EXCEPT !.hash = TRUE])
  /\ histIdx' = histIdx + 1
  /\ UNCHANGED <<kind, page, loaded, picker, abortController, fetches, rafQ, yieldQ, timerQ,
                 log, npicks, nfailures, lastResolved>>

\* The browser's back button. An entry of the same document fires popstate
\* (#handleUrlChange -> #syncFromUrl); an entry of another document unloads the page.
Back ==
  /\ loaded /\ Idle /\ histIdx > 1
  /\ histIdx' = histIdx - 1
  /\ log' = Append(IF kind = "vp" /\ page # ErrPage /\ hist[histIdx - 1] # External
                   THEN VPSyncFromUrl(picker, hist[histIdx - 1]).log ELSE log,
                   [e |-> "Back", pick |-> npicks, f |-> 0, id |-> hist[histIdx - 1].variant])
  /\ IF hist[histIdx - 1] = External
     THEN /\ loaded' = FALSE
          /\ UNCHANGED <<location, picker, fetches, abortController, yieldQ>>
     ELSE /\ location' = hist[histIdx - 1]
          /\ UNCHANGED loaded
          /\ IF kind = "vp" /\ page # ErrPage
             THEN LET r == VPSyncFromUrl(picker, hist[histIdx - 1])
                  IN /\ picker' = r.picker /\ fetches' = r.fetches
                     /\ abortController' = r.abortController /\ yieldQ' = r.yieldQ
             ELSE /\ picker' = IF kind = "dual" /\ page # ErrPage
                               THEN SyncFromUrl(picker, hist[histIdx - 1]) ELSE picker
                  /\ UNCHANGED <<fetches, abortController, yieldQ>>
  /\ UNCHANGED <<kind, page, rafQ, timerQ, hist, hashNavs, npicks, nfailures, lastResolved>>

Kinds == {"dual", "cl", "vp", "sw"}

\* The URL the page of a picker of kind k is opened with: the product page of the
\* first product or, for a product card, a collection page.
StartLocation(k) ==
  [path |-> IF k = "sw" THEN "/collections/all" ELSE Family[1].productUrl,
   variant |-> "", hash |-> FALSE]

Init ==
  /\ kind \in Kinds
  /\ location = StartLocation(kind)
  /\ loaded = TRUE
  /\ page = IF kind = "sw" THEN 0 ELSE 1
  /\ picker = CASE kind = "dual" -> DualConnected(1, location)
                  [] kind = "cl" -> CLConnected(1)
                  [] OTHER -> VPConnected(1)
  /\ abortController = 0
  /\ fetches = <<>>
  /\ rafQ = <<>> /\ yieldQ = <<>> /\ timerQ = 0
  /\ hist = <<External, location>>
  /\ histIdx = 2
  /\ hashNavs = 0
  /\ log = <<>>
  /\ npicks = 0
  /\ nfailures = 0
  /\ lastResolved = 0

Next ==
  \/ \E d \in Dims : \E i \in 1..Len(Inputs[d]) : DualPick(d, Inputs[d][i])
  \/ DualFrame
  \/ \E f \in 1..Len(fetches) : \E body \in Bodies : DualResponse(f, body)
  \/ \E i \in CLRadios : CLPick(i)
  \/ CLFrame
  \/ \E f \in 1..Len(fetches) : \E body \in Bodies : CLResponse(f, body)
  \/ \E i \in 1..Len(Options("vp")) : VPPick(i)
  \/ \E i \in 1..Len(Options("sw")) : SWPick(i)
  \/ \E f \in 1..Len(fetches) : \E body \in Bodies : VPResponse(f, body)
  \/ \E f \in 1..Len(fetches) : FetchFails(f)
  \/ \E f \in 1..Len(fetches) : ResponseAfterAbort(f)
  \/ YieldRun
  \/ TimerRun

\* The pickers under picks, callbacks and fetch outcomes.
Spec == Init /\ [][Next]_vars

NextHistory ==
  \/ Next
  \/ HashNav
  \/ Back

\* The same, with the shopper also using in-page anchors and the back button.
SpecHistory == Init /\ [][NextHistory]_vars

\* --------------------------------------------------------- QuickAddComponent
\* The quick-add button of a product card: picker holds its cache of fetched
\* product pages, the card's product page URL and whether the dialog is open.

\* Number of calls of fetchProductPage on one component.
MaxCalls == 3

\* Who calls fetchProductPage: the card's pointerenter/focusin handler and its
\* Updated handler (both drop the promise), and the button's click handler (an
\* async function that awaits it outside any try).
QACallers == {"pointerenter", "variantUpdate", "click"}

\* The product page URLs of the card (the Updated handler rewrites the card link).
QAUrls == {Family[i].productUrl : i \in 1..2}

\* How a fetch of the product page can end.
QAOutcomes == {"page", "httpError", "networkError"}

InitQuickAdd ==
  /\ kind = "quickadd"
  /\ picker = [cache |-> {}, productPageUrl |-> Family[1].productUrl, dialogOpen |-> FALSE]
  /\ loaded = TRUE /\ page = 0 /\ abortController = 0 /\ fetches = <<>>
  /\ rafQ = <<>> /\ yieldQ = <<>> /\ timerQ = 0
  /\ location = StartLocation("sw") /\ hist = <<External, location>> /\ histIdx = 2
  /\ hashNavs = 0 /\ log = <<>> /\ npicks = 0 /\ nfailures = 0 /\ lastResolved = 0

\* One of the callers runs: the Updated handler after the card link became url,
\* the hover handler, or a click on the button (which opens the dialog from the
\* cache when it can). fetchProductPage aborts the pending fetch and starts one;
\* the aborted call returns null (a click that awaited it goes on to open the
\* dialog) and its finally block clears #abortController after the new controller
\* was stored.
QACall(caller, url) ==
  /\ kind = "quickadd" /\ npicks < MaxCalls
  /\ caller # "variantUpdate" => url = picker.productPageUrl
  /\ npicks' = npicks + 1
  /\ IF caller = "click" /\ url \in picker.cache
     THEN /\ picker' = [picker EXCEPT !.dialogOpen = TRUE]
          /\ UNCHANGED <<fetches, abortController, log>>
     ELSE LET f == Len(fetches) + 1
              aborted == abortController # 0 /\ fetches[abortController].st = "pending"
          IN /\ picker' = [picker EXCEPT !.productPageUrl = url,
                                         !.dialogOpen = @ \/ (aborted /\ fetches[abortController].caller = "click")]
             /\ fetches' = StartFetch(fetches, abortController,
                                       [caller |-> caller, url |-> url, pick |-> npicks + 1,
                                        st |-> "pending", status |-> 0])
             /\ abortController' = IF aborted THEN 0 ELSE f
             /\ log' = Append(log, [e |-> "Fetch", pick |-> npicks + 1, f |-> f, id |-> ""])
  /\ UNCHANGED <<kind, loaded, page, rafQ, yieldQ, timerQ, location, hist, histIdx,
                 hashNavs, nfailures, lastResolved>>

\* The fetch f of fetchProductPage settles. A network error, and a status that is
\* not ok (the function throws), reject the promise the function returned: none
\* of its callers handles that. The finally block clears #abortController.
QASettle(f, outcome) ==
  /\ kind = "quickadd"
  /\ f \in 1..Len(fetches) /\ fetches[f].st = "pending"
  /\ outcome # "page" => nfailures < MaxFailures
  /\ nfailures' = IF outcome = "page" THEN nfailures ELSE nfailures + 1
  /\ abortController' = 0
  /\ fetches' = [fetches EXCEPT ![f].st = IF outcome = "networkError" THEN "failed" ELSE "done",
                                ![f].status = IF outcome = "page" THEN 200
                                              ELSE IF outcome = "httpError" THEN 500 ELSE 0]
  /\ IF outcome = "page"
     THEN /\ picker' = IF fetches[f].caller = "click"
                       THEN [picker EXCEPT !.cache = @ \cup {fetches[f].url}, !.dialogOpen = TRUE]
                       ELSE picker
          /\ UNCHANGED log
     ELSE /\ log' = Append(log, [e |-> "UnhandledRejection", pick |-> fetches[f].pick, f |-> f, id |-> ""])
          /\ UNCHANGED picker
  /\ UNCHANGED <<kind, loaded, page, rafQ, yieldQ, timerQ, location, hist, histIdx,
                 hashNavs, npicks, lastResolved>>

NextQuickAdd ==
  \/ \E caller \in QACallers : \E url \in QAUrls : QACall(caller, url)
  \/ \E f \in 1..Len(fetches) : \E outcome \in QAOutcomes : QASettle(f, outcome)

\* The quick-add button under hovers, clicks, card updates and fetch outcomes.
SpecQuickAdd == InitQuickAdd /\ [][NextQuickAdd]_vars

\* The option values the lookups are exercised with: the name of one color and of
\* one size as merchants may have typed them, and a second color and size.
FindColors == {"Red", "RED", " Red", "Blue"}
FindSizes == {"S", " S ", "M"}

\* Number of combinations of the sets the lookups are exercised with.
FindSetLen == 2

\* A picker for which only the lookups matter: combination i of its set has the
\* ids of product i of the family, and the color and size cs[i].
FindPicker(cs, color, size) ==
  [combinations |-> [i \in 1..FindSetLen |->
                       [productId |-> Family[i].productId, variantId |-> Family[i].variantId,
                        color |-> cs[i][1], size |-> cs[i][2],
                        productUrl |-> Family[i].productUrl, available |-> TRUE,
                        isCurrent |-> (i = 1)]],
   selectedColor |-> color, selectedSize |-> size]

\* A picker whose radio values and combinations come from raw merchant data; the
\* shopper has checked one color and one size.
InitFind ==
  /\ kind = "find"
  /\ \E cs \in [1..FindSetLen -> FindColors \X FindSizes] :
       \E color \in FindColors : \E size \in FindSizes : picker = FindPicker(cs, color, size)
  /\ loaded = TRUE /\ page = 1 /\ abortController = 0 /\ fetches = <<>>
  /\ rafQ = <<>> /\ yieldQ = <<>> /\ timerQ = 0
  /\ location = StartLocation("dual") /\ hist = <<External, location>> /\ histIdx = 2
  /\ hashNavs = 0 /\ log = <<>> /\ npicks = 0 /\ nfailures = 0 /\ lastResolved = 0

\* #handleSelectionChange resolves the selection (once).
ApplyFindSelected ==
  /\ kind = "find" /\ \A i \in 1..Len(log) : log[i].e # "FindSelected"
  /\ log' = Append(log, [e |-> "FindSelected", pick |-> 0, f |-> 0, id |-> "", r |-> FindSelected(picker)])
  /\ lastResolved' = FindSelected(picker)
  /\ UNCHANGED <<kind, loaded, page, picker, abortController, fetches, rafQ, yieldQ, timerQ,
                 location, hist, histIdx, hashNavs, npicks, nfailures>>

\* #navigateToMatchingProduct resolves the selection (once).
ApplyFindToNavigate ==
  /\ kind = "find" /\ \A i \in 1..Len(log) : log[i].e # "FindToNavigate"
  /\ log' = Append(log, [e |-> "FindToNavigate", pick |-> 0, f |-> 0, id |-> "", r |-> FindToNavigate(picker)])
  /\ UNCHANGED <<kind, loaded, page, picker, abortController, fetches, rafQ, yieldQ, timerQ,
                 location, hist, histIdx, hashNavs, npicks, nfailures, lastResolved>>

NextFind ==
  \/ ApplyFindSelected
  \/ ApplyFindToNavigate

\* The two lookups of the dual picker on every selection and combination set.
SpecFind == InitFind /\ [][NextFind]_vars

NextExternal ==
  \/ Next
  \/ \E id \in ExternalIds : \E html \in BOOLEAN : ExternalUpdated(id, html)

\* The same as Spec, with other components of the page dispatching Updated events.
SpecExternal == Init /\ [][NextExternal]_vars

\* VariantPickerCLDual.connectedCallback on markup with no current option: the
\* combinations are those of FindPicker(cs, "", ""), data-current-color and
\* data-current-size are empty and no radio carries data-current-checked.
DualUnselected(cs, loc) ==
  UpdateFiltering(
    [combinations |-> FindPicker(cs, "", "").combinations,
     selectedColor |-> "", selectedSize |-> "",
     currentProductUrl |-> loc.path,
     checkedIndices |-> [d \in Dims |-> <<>>],
     dataset |-> [combinations |-> 1, currentColor |-> "", currentSize |-> "", productId |-> "P1"],
     checked |-> [d \in Dims |-> ""], disabled |-> [d \in Dims |-> {}],
     unavailable |-> [d \in Dims |-> {}],
     pillCurrent |-> [d \in Dims |-> {}], pillPrevious |-> [d \in Dims |-> {}]])

\* A dual picker with no dimension selected, over every combination set.
InitOrder ==
  /\ kind = "dual"
  /\ location = StartLocation("dual")
  /\ \E cs \in [1..FindSetLen -> FindColors \X FindSizes] : picker = DualUnselected(cs, location)
  /\ loaded = TRUE /\ page = 1 /\ abortController = 0 /\ fetches = <<>>
  /\ rafQ = <<>> /\ yieldQ = <<>> /\ timerQ = 0
  /\ hist = <<External, location>> /\ histIdx = 2
  /\ hashNavs = 0 /\ log = <<>> /\ npicks = 0 /\ nfailures = 0 /\ lastResolved = 0

NextOrder ==
  \/ \E d \in Dims : \E i \in 1..Len(Inputs[d]) : DualPick(d, Inputs[d][i])
  \/ DualFrame

\* The shopper's picks on a dual picker that starts with no dimension selected,
\* up to the fetch of the resolved combination.
SpecOrder == InitOrder /\ [][NextOrder]_vars

\* ------------------------------------------------- the combinations string
\* A string is the sequence of its pieces: the character "|" and words that hold
\* no "|" ("true" is the text true, "TRUE" another text).
Pipe == "|"

\* Number of entries of the data-combinations strings that are parsed.
MaxEntries == 3

\* The entries a data-combinations attribute is written from: two entries of 7
\* fields, one of 6, one of 8, an empty one, and one whose color and size are
\* both empty (its text holds "|||").
EntryTexts ==
  { <<"P1", Pipe, "V1", Pipe, "Red", Pipe, "S", Pipe, "u1", Pipe, "true", Pipe, "true">>,
    <<"P2", Pipe, "V2", Pipe, "Blue", Pipe, "S", Pipe, "u2", Pipe, "TRUE", Pipe, "false">>,
    <<"P3", Pipe, "V3", Pipe, "Red", Pipe, "M", Pipe, "u3", Pipe, "true">>,
    <<"P4", Pipe, "V4", Pipe, "Green", Pipe, "M", Pipe, "u4", Pipe, "true", Pipe, "false", Pipe, "x">>,
    <<>>,
    <<"P3", Pipe, "V3", Pipe, Pipe, Pipe, "u3", Pipe, "true", Pipe, "false">> }

\* Array.prototype.join('|||') of the entries es.
RECURSIVE JoinEntries(_)
JoinEntries(es) ==
  IF Len(es) = 0 THEN <<>>
  ELSE IF Len(es) = 1 THEN es[1]
  ELSE es[1] \o <<Pipe, Pipe, Pipe>> \o JoinEntries(Tail(es))

\* The data-combinations strings of up to MaxEntries entries.
DataStrings ==
  {JoinEntries(es) : es \in UNION {[1..n -> EntryTexts] : n \in 0..MaxEntries}}

\* String.prototype.split on the separator of n pipes, scanning s from the left;
\* acc is the piece read so far.
RECURSIVE Split(_, _, _)
Split(s, n, acc) ==
  IF Len(s) < n THEN <<acc \o s>>
  ELSE IF \A k \in 1..n : s[k] = Pipe
       THEN <<acc>> \o Split(SubSeq(s, n + 1, Len(s)), n, <<>>)
       ELSE Split(Tail(s), n, Append(acc, Head(s)))

\* The null that #parseCombinations maps a short entry to.
Null == [productId |-> <<"null">>]

\* A parser that gives up on the whole string when one entry is short.
ParseAllOrNothing(dataString) ==
  IF \E i \in 1..Len(Split(dataString, 3, <<>>)) :
       Len(Split(Split(dataString, 3, <<>>)[i], 1, <<>>)) < 7
  THEN <<>>
  ELSE [i \in 1..Len(Split(dataString, 3, <<>>)) |->
          LET parts == Split(Split(dataString, 3, <<>>)[i], 1, <<>>)
          IN [productId |-> parts[1], variantId |-> parts[2], color |-> parts[3],
              size |-> parts[4], productUrl |-> parts[5],
              available |-> (parts[6] = <<"true">>), isCurrent |-> (parts[7] = <<"true">>)]]

\* #parseCombinations: the texts of the fields are kept as they are.
ParseCombinations(dataString) ==
  IF dataString = <<>> THEN <<>>
  ELSE LET entries == Split(dataString, 3, <<>>)
           mapped == [i \in 1..Len(entries) |->
                        LET parts == Split(entries[i], 1, <<>>)
                        IN IF Len(parts) >= 7
                           THEN [productId |-> parts[1], variantId |-> parts[2],
                                 color |-> parts[3], size |-> parts[4],
                                 productUrl |-> parts[5],
                                 available |-> (parts[6] = <<"true">>),
                                 isCurrent |-> (parts[7] = <<"true">>)]
                           ELSE Null]
           IsEntry(e) == e # Null
       IN SelectSeq(mapped, IsEntry)

\* A dual picker about to connect: its data-combinations attribute is any of the
\* strings, nothing is parsed yet.
InitParse ==
  /\ kind = "parse"
  /\ \E s \in DataStrings : picker = [dataString |-> s, combinations |-> <<>>, parsed |-> FALSE]
  /\ loaded = TRUE /\ page = 1 /\ abortController = 0 /\ fetches = <<>>
  /\ rafQ = <<>> /\ yieldQ = <<>> /\ timerQ = 0
  /\ location = StartLocation("dual") /\ hist = <<External, location>> /\ histIdx = 2
  /\ hashNavs = 0 /\ log = <<>> /\ npicks = 0 /\ nfailures = 0 /\ lastResolved = 0

\* connectedCallback (and #reinitializeAfterMorph) parse the attribute.
ApplyParse ==
  /\ kind = "parse" /\ ~picker.parsed
  /\ picker' = [picker EXCEPT !.combinations = ParseCombinations(picker.dataString),
                              !.parsed = TRUE]
  /\ UNCHANGED <<kind, loaded, page, abortController, fetches, rafQ, yieldQ, timerQ,
                 location, hist, histIdx, hashNavs, log, npicks, nfailures, lastResolved>>

NextParse == ApplyParse

\* #parseCombinations on every data-combinations string.
SpecParse == InitParse /\ [][NextParse]_vars

\* The values of the availability queries: those of the lookups, and no value.
QueryColors == FindColors \cup {""}
QuerySizes == FindSizes \cup {""}

\* A picker whose combinations come from raw merchant data (an option may have no
\* value), with any selection, including none.
InitQuery ==
  /\ kind = "query"
  /\ \E cs \in [1..FindSetLen -> QueryColors \X QuerySizes] :
       \E color \in QueryColors : \E size \in QuerySizes : picker = FindPicker(cs, color, size)
  /\ loaded = TRUE /\ page = 1 /\ abortController = 0 /\ fetches = <<>>
  /\ rafQ = <<>> /\ yieldQ = <<>> /\ timerQ = 0
  /\ location = StartLocation("dual") /\ hist = <<External, location>> /\ histIdx = 2
  /\ hashNavs = 0 /\ log = <<>> /\ npicks = 0 /\ nfailures = 0 /\ lastResolved = 0

\* #updateFiltering asks for the available colors (once).
ApplyAvailableColors ==
  /\ kind = "query" /\ \A i \in 1..Len(log) : log[i].e # "AvailableColors"
  /\ log' = Append(log, [e |-> "AvailableColors", pick |-> 0, f |-> 0, id |-> "",
                         r |-> GetAvailableColors(picker)])
  /\ UNCHANGED <<kind, loaded, page, picker, abortController, fetches, rafQ, yieldQ, timerQ,
                 location, hist, histIdx, hashNavs, npicks, nfailures, lastResolved>>

\* #updateFiltering asks for the available sizes (once).
ApplyAvailableSizes ==
  /\ kind = "query" /\ \A i \in 1..Len(log) : log[i].e # "AvailableSizes"
  /\ log' = Append(log, [e |-> "AvailableSizes", pick |-> 0, f |-> 0, id |-> "",
                         r |-> GetAvailableSizes(picker)])
  /\ UNCHANGED <<kind, loaded, page, picker, abortController, fetches, rafQ, yieldQ, timerQ,
                 location, hist, histIdx, hashNavs, npicks, nfailures, lastResolved>>

NextQuery ==
  \/ ApplyAvailableColors
  \/ ApplyAvailableSizes

\* The two availability queries on every combination set and selection.
SpecQuery == InitQuery /\ [][NextQuery]_vars

\* The values of combination sets in which several combinations can carry the
\* same color and size, or the same variant id.
FirstColors == {"Red", "RED", "Blue"}
FirstSizes == {"S", "M"}
FirstIds == {"V1", "V2"}

\* A connected dual picker whose combination i has the product of family member i,
\* the color and size cs[i] and the variant id ids[i]; the page it is on is that
\* of no combination of the set.
FirstPicker(cs, ids, color, size) ==
  [combinations |-> [i \in 1..FindSetLen |->
                       [productId |-> Family[i].productId, variantId |-> ids[i],
                        color |-> cs[i][1], size |-> cs[i][2],
                        productUrl |-> Family[i].productUrl, available |-> TRUE,
                        isCurrent |-> FALSE]],
   selectedColor |-> color, selectedSize |-> size,
   currentProductUrl |-> Family[NFamily].productUrl,
   checkedIndices |-> [d \in Dims |-> <<>>],
   dataset |-> [combinations |-> NFamily, currentColor |-> color, currentSize |-> size,
                productId |-> Family[NFamily].productId],
   checked |-> [d \in Dims |-> ""], disabled |-> [d \in Dims |-> {}],
   unavailable |-> [d \in Dims |-> {}],
   pillCurrent |-> [d \in Dims |-> {}], pillPrevious |-> [d \in Dims |-> {}]]

InitFirst ==
  /\ kind = "first"
  /\ \E cs \in [1..FindSetLen -> FirstColors \X FirstSizes] :
       \E ids \in [1..FindSetLen -> FirstIds] :
         \E color \in FirstColors : \E size \in FirstSizes :
           picker = FirstPicker(cs, ids, color, size)
  /\ loaded = TRUE /\ page = 1 /\ abortController = 0 /\ fetches = <<>>
  /\ rafQ = <<>> /\ yieldQ = <<>> /\ timerQ = 0
  /\ location = StartLocation("dual") /\ hist = <<External, location>> /\ histIdx = 2
  /\ hashNavs = 0 /\ log = <<>> /\ npicks = 0 /\ nfailures = 0 /\ lastResolved = 0

\* The lookup of #handleSelectionChange.
FirstSelected ==
  /\ kind = "first" /\ log = <<>>
  /\ log' = <<[e |-> "FindSelected", pick |-> 0, f |-> 0, id |-> "", r |-> FindSelected(picker)]>>
  /\ UNCHANGED <<kind, loaded, page, picker, abortController, fetches, rafQ, yieldQ, timerQ,
                 location, hist, histIdx, hashNavs, npicks, nfailures, lastResolved>>

\* The lookup of #navigateToMatchingProduct.
FirstToNavigate ==
  /\ kind = "first" /\ log = <<>>
  /\ log' = <<[e |-> "FindToNavigate", pick |-> 0, f |-> 0, id |-> "", r |-> FindToNavigate(picker)]>>
  /\ UNCHANGED <<kind, loaded, page, picker, abortController, fetches, rafQ, yieldQ, timerQ,
                 location, hist, histIdx, hashNavs, npicks, nfailures, lastResolved>>

\* #syncFromUrl with ?variant=id in the URL.
FirstSyncFromUrl(id) ==
  /\ kind = "first" /\ log = <<>>
  /\ picker' = SyncFromUrl(picker, [path |-> location.path, variant |-> id, hash |-> FALSE])
  /\ log' = <<[e |-> "SyncFromUrl", pick |-> 0, f |-> 0, id |-> id, r |-> 0]>>
  /\ UNCHANGED <<kind, loaded, page, abortController, fetches, rafQ, yieldQ, timerQ,
                 location, hist, histIdx, hashNavs, npicks, nfailures, lastResolved>>

\* #handleVariantUpdate for an Updated event of another component with resource id.
FirstHandleVariantUpdate(id) ==
  /\ kind = "first" /\ log = <<>>
  /\ picker' = HandleVariantUpdate(picker, id, location)
  /\ log' = <<[e |-> "HandleVariantUpdate", pick |-> 0, f |-> 0, id |-> id, r |-> 0]>>
  /\ UNCHANGED <<kind, loaded, page, abortController, fetches, rafQ, yieldQ, timerQ,
                 location, hist, histIdx, hashNavs, npicks, nfailures, lastResolved>>

NextFirst ==
  \/ FirstSelected
  \/ FirstToNavigate
  \/ \E id \in FirstIds : FirstSyncFromUrl(id)
  \/ \E id \in FirstIds : FirstHandleVariantUpdate(id)

\* Each lookup of the dual picker, once, on combination sets with repeated
\* options and repeated variant ids.
SpecFirst == InitFirst /\ [][NextFirst]_vars

\* Number of selections made on one option container, and number of its radios.
MaxSelections == 3

NRadios == 4

\* One option container after connect: its checked-index history is empty, or
\* holds the index of the radio the server rendered checked.
InitPill ==
  /\ kind = "pill"
  /\ \E idx \in {<<>>} \cup {<<i>> : i \in 1..NRadios} :
       picker = [checkedIndices |-> idx,
                 pillCurrent |-> {idx[k] : k \in 1..Len(idx)}, pillPrevious |-> {}]
  /\ loaded = TRUE /\ page = 1 /\ abortController = 0 /\ fetches = <<>>
  /\ rafQ = <<>> /\ yieldQ = <<>> /\ timerQ = 0
  /\ location = StartLocation("dual") /\ hist = <<External, location>> /\ histIdx = 2
  /\ hashNavs = 0 /\ log = <<>> /\ npicks = 0 /\ nfailures = 0 /\ lastResolved = 0

\* updateSelectedOptionPillAnimation(radios, checkedIndices, inputIndex, container)
\* for the selection of radio inputIndex.
SelectInput(inputIndex) ==
  /\ kind = "pill" /\ npicks < MaxSelections
  /\ LET r == UpdatePill(picker.pillCurrent, picker.pillPrevious, picker.checkedIndices, inputIndex)
     IN picker' = [checkedIndices |-> r.idx, pillCurrent |-> r.cur, pillPrevious |-> r.prev]
  /\ log' = Append(log, [e |-> "Select", pick |-> npicks + 1, f |-> 0, id |-> "", r |-> inputIndex])
  /\ npicks' = npicks + 1
  /\ UNCHANGED <<kind, loaded, page, abortController, fetches, rafQ, yieldQ, timerQ,
                 location, hist, histIdx, hashNavs, nfailures, lastResolved>>

NextPill == \E i \in 1..NRadios : SelectInput(i)

\* Any sequence of selections on one option container.
SpecPill == InitPill /\ [][NextPill]_vars

\* ------------------------------------------- the combined-listing quick-add modal
\* One QuickAddComponent of a card with data-combined-listing="true" and the modal
\* content element #quick-add-modal-content-cl. A product page URL is the index of
\* its product in the family (its variant parameter is that product's variant).
\* The picker record holds: the card link (productPageUrl), #cachedContentCL
\* (cache), the product whose grid the modal content shows (content, 0: empty),
\* the radio checked in the modal's picker, the value of the form's variant-id
\* input, #clModalCurrentUrl, #clModalLoadInProgress, whether the dialog is open,
\* the swatch the shopper selected last in the modal (0: none since it opened),
\* and the number of change listeners of each kind on the modal's picker element,
\* which morph keeps (same tag, same position).

\* Number of shopper actions on the card and in the modal.
MaxModalActions == 4

\* The products the card link can point to, and the swatches of the modal's picker.
CardProducts == 1..2
ModalSwatches == 1..3

\* How a fetch of a product page can end: the page, a page without
\* [data-product-grid-content], or a network error.
ModalOutcomes == {"page", "noGrid", "networkError"}

InitModal ==
  /\ kind = "modal"
  /\ picker = [productPageUrl |-> 1, cache |-> {}, content |-> 0, checked |-> 0,
               formVariantId |-> "", clModalCurrentUrl |-> 0, loadInProgress |-> FALSE,
               dialogOpen |-> FALSE, lastSwatch |-> 0,
               variantListeners |-> 0, loadListeners |-> 0]
  /\ loaded = TRUE /\ page = 0 /\ abortController = 0 /\ fetches = <<>>
  /\ rafQ = <<>> /\ yieldQ = <<>> /\ timerQ = 0
  /\ location = StartLocation("sw") /\ hist = <<External, location>> /\ histIdx = 2
  /\ hashNavs = 0 /\ log = <<>> /\ npicks = 0 /\ nfailures = 0 /\ lastResolved = 0

\* morph(modalContent, grid of product i), the variant-id input set to v, then
\* #setupCombinedListingVariantListener and #setupCombinedListingSwatchLoadProduct:
\* each adds one more listener to the picker element.
ShowInModal(st, i, v) ==
  [st EXCEPT !.content = i, !.checked = i, !.formVariantId = v,
             !.variantListeners = @ + 1, !.loadListeners = @ + 1]

\* The rest of handleClick after its fetch gave no product grid (html null after
\* an abort, or no grid element): the URL's variant id goes into the form the
\* modal content has, #clModalCurrentUrl is set, the dialog opens.
ClickWithoutGrid(st, u) ==
  [st EXCEPT !.formVariantId = IF st.content # 0 THEN Family[u].variantId ELSE @,
             !.clModalCurrentUrl = u, !.dialogOpen = TRUE, !.lastSwatch = 0]

\* What the caller awaiting the fetch c does when a new fetchProductPage call
\* aborts it (fetchProductPage returns null): handleClick goes on and opens the
\* dialog, #loadProductIntoClModal returns through its finally block.
ModalAfterAbort(st, fs, c) ==
  IF c = 0 \/ fs[c].st # "pending" THEN st
  ELSE IF fs[c].caller = "click" THEN ClickWithoutGrid(st, fs[c].url)
  ELSE IF fs[c].caller = "load" THEN [st EXCEPT !.loadInProgress = FALSE]
  ELSE st

\* The log entry of a dialog opened by the click on the card of product u while
\* the modal content shows product c.
OpenEntry(u, c, pk) == [e |-> "Open", pick |-> pk, f |-> 0, id |-> Family[u].variantId, url |-> u, content |-> c]

\* The Open entry the aborted click of fetch c leaves, if any.
AbortOpens(st, fs, c, pk) ==
  IF c # 0 /\ fs[c].st = "pending" /\ fs[c].caller = "click"
  THEN << OpenEntry(fs[c].url, st.content, fs[c].pick) >> ELSE <<>>

\* fetchProductPage(u) from the card: pointerenter / focusin, or the card's
\* Updated handler after its link became u. The result is dropped.
ModalCardFetch(caller, u) ==
  /\ kind = "modal" /\ npicks < MaxModalActions /\ ~picker.dialogOpen
  /\ caller \in {"pointerenter", "variantUpdate"}
  /\ caller = "pointerenter" => u = picker.productPageUrl
  /\ LET aborted == abortController # 0 /\ fetches[abortController].st = "pending"
         f == Len(fetches) + 1
     IN /\ picker' = [ModalAfterAbort(picker, fetches, abortController) EXCEPT !.productPageUrl = u]
        /\ fetches' = StartFetch(fetches, abortController,
                                 [caller |-> caller, url |-> u, pick |-> npicks + 1,
                                  st |-> "pending", status |-> 0])
        /\ abortController' = IF aborted THEN 0 ELSE f
        /\ log' = log \o AbortOpens(picker, fetches, abortController, npicks + 1)
  /\ npicks' = npicks + 1
  /\ UNCHANGED <<kind, loaded, page, rafQ, yieldQ, timerQ, location, hist, histIdx,
                 hashNavs, nfailures, lastResolved>>

\* handleClick on the quick-add button: from the cache the modal is updated and
\* the dialog opens; otherwise the handler awaits fetchProductPage.
ModalClick ==
  /\ kind = "modal" /\ npicks < MaxModalActions /\ ~picker.dialogOpen
  /\ npicks' = npicks + 1
  /\ LET u == picker.productPageUrl
         aborted == abortController # 0 /\ fetches[abortController].st = "pending"
         f == Len(fetches) + 1
     IN IF u \in picker.cache
        THEN /\ picker' = [ShowInModal(picker, u, Family[u].variantId)
                             EXCEPT !.clModalCurrentUrl = u, !.dialogOpen = TRUE, !.lastSwatch = 0]
             /\ log' = Append(log, OpenEntry(u, u, npicks + 1))
             /\ UNCHANGED <<fetches, abortController>>
        ELSE /\ picker' = ModalAfterAbort(picker, fetches, abortController)
             /\ fetches' = StartFetch(fetches, abortController,
                                      [caller |-> "click", url |-> u, pick |-> npicks + 1,
                                       st |-> "pending", status |-> 0])
             /\ abortController' = IF aborted THEN 0 ELSE f
             /\ log' = log \o AbortOpens(picker, fetches, abortController, npicks + 1)
  /\ UNCHANGED <<kind, loaded, page, rafQ, yieldQ, timerQ, location, hist, histIdx,
                 hashNavs, nfailures, lastResolved>>

\* The dialog is closed.
ModalClose ==
  /\ kind = "modal" /\ picker.dialogOpen
  /\ picker' = [picker EXCEPT !.dialogOpen = FALSE]
  /\ UNCHANGED <<kind, loaded, page, abortController, fetches, rafQ, yieldQ, timerQ, location,
                 hist, histIdx, hashNavs, log, npicks, nfailures, lastResolved>>

\* One run of #loadProductIntoClModal(i) from a load listener, on the state
\* r = [st, fs, ac, lg] left by the listeners that ran before it.
LoadListenerRuns(r, i, pk) ==
  IF r.st.loadInProgress THEN r
  ELSE IF i \in r.st.cache
  THEN [r EXCEPT !.st = [ShowInModal(r.st, i, Family[i].variantId) EXCEPT !.clModalCurrentUrl = i],
                 !.lg = Append(r.lg, [e |-> "Load", pick |-> pk, f |-> 0, id |-> Family[i].variantId])]
  ELSE [st |-> [ModalAfterAbort(r.st, r.fs, r.ac) EXCEPT !.loadInProgress = TRUE],
        fs |-> StartFetch(r.fs, r.ac, [caller |-> "load", url |-> i, pick |-> pk,
                                       st |-> "pending", status |-> 0]),
        ac |-> IF r.ac # 0 /\ r.fs[r.ac].st = "pending" THEN 0 ELSE Len(r.fs) + 1,
        lg |-> Append(r.lg, [e |-> "Load", pick |-> pk, f |-> Len(r.fs) + 1, id |-> Family[i].variantId])]

\* The n load listeners the picker element had when the change event was
\* dispatched run one after the other.
RECURSIVE LoadListenersRun(_, _, _, _)
LoadListenersRun(r, i, pk, n) ==
  IF n = 0 THEN r ELSE LoadListenersRun(LoadListenerRuns(r, i, pk), i, pk, n - 1)

\* The n variant listeners each call #updateVariantIdInput.
VariantListenersRun(lg, i, pk, n) ==
  lg \o [k \in 1..n |-> [e |-> "VariantId", pick |-> pk, f |-> 0, id |-> Family[i].variantId]]

\* The shopper checks swatch i in the picker of the open modal: the change event
\* reaches every quick-add listener on the picker element.
ModalChange(i) ==
  /\ kind = "modal" /\ npicks < MaxModalActions
  /\ picker.dialogOpen /\ picker.content # 0 /\ picker.checked # i
  /\ npicks' = npicks + 1
  /\ LET s1 == [picker EXCEPT !.checked = i, !.lastSwatch = i,
                              !.formVariantId = IF picker.variantListeners > 0
                                                THEN Family[i].variantId ELSE @]
         r == LoadListenersRun([st |-> s1, fs |-> fetches, ac |-> abortController,
                                lg |-> VariantListenersRun(log, i, npicks + 1, picker.variantListeners)],
                               i, npicks + 1, picker.loadListeners)
     IN /\ picker' = r.st /\ fetches' = r.fs /\ abortController' = r.ac /\ log' = r.lg
  /\ UNCHANGED <<kind, loaded, page, rafQ, yieldQ, timerQ, location, hist, histIdx,
                 hashNavs, nfailures, lastResolved>>

\* The fetch f of fetchProductPage settles, and the function that awaited it goes on.
ModalSettle(f, outcome) ==
  /\ kind = "modal"
  /\ f \in 1..Len(fetches) /\ fetches[f].st = "pending"
  /\ outcome # "page" => nfailures < MaxFailures
  /\ nfailures' = IF outcome = "page" THEN nfailures ELSE nfailures + 1
  /\ abortController' = 0
  /\ fetches' = [fetches EXCEPT ![f].st = IF outcome = "page" THEN "done" ELSE "failed",
                                ![f].status = IF outcome = "networkError" THEN 0 ELSE 200]
  /\ LET r == fetches[f]
         u == r.url
         v == Family[u].variantId
     IN IF r.caller = "click"
        THEN IF outcome = "page"
             THEN /\ picker' = [ShowInModal(picker, u, Family[picker.productPageUrl].variantId)
                                  EXCEPT !.cache = @ \cup {u}, !.formVariantId = v,
                                         !.clModalCurrentUrl = u, !.dialogOpen = TRUE, !.lastSwatch = 0]
                  /\ log' = Append(log, OpenEntry(u, u, r.pick))
             ELSE IF outcome = "noGrid"
             THEN /\ picker' = ClickWithoutGrid(picker, u)
                  /\ log' = Append(log, OpenEntry(u, picker.content, r.pick))
             ELSE UNCHANGED <<picker, log>>
        ELSE IF r.caller = "load"
        THEN /\ picker' = IF outcome = "page"
                          THEN [ShowInModal(picker, u, v)
                                  EXCEPT !.cache = @ \cup {u}, !.clModalCurrentUrl = u,
                                         !.loadInProgress = FALSE]
                          ELSE [picker EXCEPT !.loadInProgress = FALSE]
             /\ UNCHANGED log
        ELSE UNCHANGED <<picker, log>>
  /\ UNCHANGED <<kind, loaded, page, rafQ, yieldQ, timerQ, location, hist, histIdx,
                 hashNavs, npicks, lastResolved>>

NextModal ==
  \/ \E caller \in {"pointerenter", "variantUpdate"} : \E u \in CardProducts : ModalCardFetch(caller, u)
  \/ ModalClick
  \/ ModalClose
  \/ \E i \in ModalSwatches : ModalChange(i)
  \/ \E f \in 1..Len(fetches) : \E outcome \in ModalOutcomes : ModalSettle(f, outcome)

\* The quick-add button of a combined-listing card and its modal.
SpecModal == InitModal /\ [][NextModal]_vars

\* --------------------------------------------- pickers outside the product page
\* A picker rendered inside a product card or a quick-add dialog of a collection
\* page: the page's main element shows no product (page = 0) and the browser URL
\* is that of the collection.
InsideKinds == {"dual", "cl", "sw"}

InitInside ==
  /\ kind \in InsideKinds
  /\ location = StartLocation("sw")
  /\ loaded = TRUE
  /\ page = 0
  /\ picker = CASE kind = "dual" -> DualConnected(1, location)
                  [] kind = "cl" -> CLConnected(1)
                  [] OTHER -> VPConnected(1)
  /\ abortController = 0
  /\ fetches = <<>>
  /\ rafQ = <<>> /\ yieldQ = <<>> /\ timerQ = 0
  /\ hist = <<External, location>>
  /\ histIdx = 2
  /\ hashNavs = 0
  /\ log = <<>>
  /\ npicks = 0
  /\ nfailures = 0
  /\ lastResolved = 0

NextInside ==
  \/ \E d \in Dims : \E i \in 1..Len(Inputs[d]) : DualPick(d, Inputs[d][i])
  \/ DualFrame
  \/ \E f \in 1..Len(fetches) : \E body \in Bodies : DualResponse(f, body)
  \/ \E i \in CLRadios : CLPick(i)
  \/ CLFrame
  \/ \E f \in 1..Len(fetches) : \E body \in Bodies : CLResponse(f, body)
  \/ \E i \in 1..Len(Options("sw")) : SWPick(i)
  \/ \E f \in 1..Len(fetches) : \E body \in Bodies : VPResponse(f, body)
  \/ \E f \in 1..Len(fetches) : FetchFails(f)
  \/ \E f \in 1..Len(fetches) : ResponseAfterAbort(f)
  \/ YieldRun
  \/ TimerRun

\* The pickers of cards and quick-add dialogs under picks and fetch outcomes.
SpecInside == InitInside /\ [][NextInside]_vars

\* ------------------------------------------------- ProductCard: swatch hover
\* The link of one product card (product 1) under swatch hovers, resets and
\* selections. A URL is a record [path, variant]; NoUrl is null. The picker record
\* holds refs.productCardLink.href (the gallery and title links get the same
\* value in every assignment), the card's private fields #originalProductUrl,
\* #selectedSwatchImageUrl and #selectedSwatchProductUrl, the checked swatch
\* (0: none), the swatches hovered since the last reset and the href before the
\* first of them, and whether a selection was made since.

\* Number of pointer actions on the card.
MaxCardActions == 5

NoUrl == [path |-> "", variant |-> ""]

\* The swatches of the card: two of the card's own product (no data-product-id,
\* no data-product-url), with and without a featured image, and two of other
\* products of the combined listing, whose click the card handles without a fetch
\* (data-available-count = 0).
CardSwatches ==
  << [productId |-> "", productUrl |-> "", variantId |-> "W1", featuredImageUrl |-> "i1"],
     [productId |-> "", productUrl |-> "", variantId |-> "W2", featuredImageUrl |-> ""],
     [productId |-> "P2", productUrl |-> "/products/u2", variantId |-> "V2", featuredImageUrl |-> "i2"],
     [productId |-> "P3", productUrl |-> "/products/u3", variantId |-> "V3", featuredImageUrl |-> "i3"] >>

\* connectedProductUrl of a swatch: data-connected-product-url is not rendered
\* on these swatches, so the product URL with the variant id, or undefined.
ConnectedProductUrl(sw) ==
  IF sw.productUrl # "" /\ sw.variantId # ""
  THEN [path |-> sw.productUrl, variant |-> sw.variantId]
  ELSE [path |-> sw.productUrl, variant |-> ""]

\* isCombinedListingSwatch: the swatch is of another product than the card's.
IsCombinedListingSwatch(sw) ==
  \/ sw.productId # "" /\ sw.productId # Family[1].productId
  \/ sw.productUrl # "" /\ sw.productUrl # Family[1].productUrl

\* ProductCard.#initializeSelectedSwatch for the swatch c checked in the markup.
InitializeSelectedSwatch(st, c) ==
  IF c = 0 \/ CardSwatches[c].featuredImageUrl = "" THEN st
  ELSE LET sw == CardSwatches[c]
           conn == ConnectedProductUrl(sw)
       IN [st EXCEPT !.selectedSwatchImageUrl = sw.featuredImageUrl,
                     !.selectedSwatchProductUrl = conn,
                     !.href = IF conn # NoUrl THEN conn ELSE @]

InitCard ==
  /\ kind = "card"
  /\ \E c \in 0..2 :
       picker = InitializeSelectedSwatch(
                  [href |-> [path |-> Family[1].productUrl, variant |-> ""],
                   originalProductUrl |-> NoUrl, selectedSwatchImageUrl |-> "",
                   selectedSwatchProductUrl |-> NoUrl, checked |-> c,
                   hovered |-> {}, hrefBefore |-> NoUrl, selectedSince |-> FALSE], c)
  /\ loaded = TRUE /\ page = 0 /\ abortController = 0 /\ fetches = <<>>
  /\ rafQ = <<>> /\ yieldQ = <<>> /\ timerQ = 0
  /\ location = StartLocation("sw") /\ hist = <<External, location>> /\ histIdx = 2
  /\ hashNavs = 0 /\ log = <<>> /\ npicks = 0 /\ nfailures = 0 /\ lastResolved = 0

\* ProductCard.previewVariant(id, event) for a pointer over swatch s.
PreviewVariant(s) ==
  /\ kind = "card" /\ npicks < MaxCardActions
  /\ npicks' = npicks + 1
  /\ LET sw == CardSwatches[s]
         st == [picker EXCEPT !.hovered = @ \cup {s},
                              !.hrefBefore = IF picker.hovered = {} THEN picker.href ELSE @]
     IN picker' =
          IF sw.productId = "" /\ sw.productUrl = ""
          THEN IF sw.featuredImageUrl # "" /\ st.checked = s
               THEN [st EXCEPT !.selectedSwatchImageUrl = sw.featuredImageUrl]
               ELSE st
          ELSE IF IsCombinedListingSwatch(sw) /\ sw.featuredImageUrl # ""
          THEN [st EXCEPT !.originalProductUrl = IF @ = NoUrl THEN st.href ELSE @,
                          !.href = IF ConnectedProductUrl(sw) # NoUrl
                                   THEN ConnectedProductUrl(sw) ELSE @]
          ELSE st
  /\ UNCHANGED <<kind, loaded, page, abortController, fetches, rafQ, yieldQ, timerQ, location,
                 hist, histIdx, hashNavs, log, nfailures, lastResolved>>

\* ProductCard.#resetVariant: the debounced reset after the pointer left the
\* swatches, or resetImage.
ResetVariant ==
  /\ kind = "card" /\ npicks < MaxCardActions
  /\ npicks' = npicks + 1
  /\ LET st == IF picker.selectedSwatchImageUrl # ""
               THEN [picker EXCEPT !.href = IF picker.selectedSwatchProductUrl # NoUrl
                                            THEN picker.selectedSwatchProductUrl ELSE @,
                                   !.originalProductUrl = NoUrl]
               ELSE IF picker.originalProductUrl # NoUrl
               THEN [picker EXCEPT !.href = picker.originalProductUrl,
                                   !.originalProductUrl = NoUrl]
               ELSE picker
     IN /\ picker' = [st EXCEPT !.hovered = {}, !.hrefBefore = NoUrl, !.selectedSince = FALSE]
        /\ log' = Append(log, [e |-> "Reset", pick |-> npicks + 1, f |-> 0, id |-> "",
                               hovered |-> picker.hovered, before |-> picker.hrefBefore,
                               after |-> st.href, checked |-> picker.checked,
                               selectedSince |-> picker.selectedSince])
  /\ UNCHANGED <<kind, loaded, page, abortController, fetches, rafQ, yieldQ, timerQ, location,
                 hist, histIdx, hashNavs, nfailures, lastResolved>>

\* The shopper selects swatch s. A swatch of another product:
\* SwatchesVariantPickerComponent.variantChanged calls setSelectedSwatch and sets
\* the links. A swatch of the card's product: the picker's Updated event reaches
\* ProductCard.#handleVariantUpdate, which sets the links to the rendered card's
\* URL and stores the checked swatch's featured image.
CardSelect(s) ==
  /\ kind = "card" /\ npicks < MaxCardActions /\ picker.checked # s
  /\ npicks' = npicks + 1
  /\ LET sw == CardSwatches[s]
         st == [picker EXCEPT !.checked = s, !.selectedSince = TRUE]
     IN picker' =
          IF IsCombinedListingSwatch(sw)
          THEN [st EXCEPT !.selectedSwatchImageUrl = sw.featuredImageUrl,
                          !.selectedSwatchProductUrl = ConnectedProductUrl(sw),
                          !.href = IF ConnectedProductUrl(sw) # NoUrl
                                   THEN ConnectedProductUrl(sw) ELSE @]
          ELSE [st EXCEPT !.href = [path |-> Family[1].productUrl, variant |-> sw.variantId],
                          !.selectedSwatchImageUrl = IF sw.featuredImageUrl # ""
                                                     THEN sw.featuredImageUrl ELSE @]
  /\ UNCHANGED <<kind, loaded, page, abortController, fetches, rafQ, yieldQ, timerQ, location,
                 hist, histIdx, hashNavs, log, nfailures, lastResolved>>

NextCard ==
  \/ \E s \in 1..Len(CardSwatches) : PreviewVariant(s)
  \/ ResetVariant
  \/ \E s \in 1..Len(CardSwatches) : CardSelect(s)

\* The links of a product card under hovers, resets and selections.
SpecCard == InitCard /\ [][NextCard]_vars

\* ------------------------------------------ connect, disconnect and tracking
\* One picker element (a VariantPicker on the product page, or a dual picker)
\* with NFieldsets option groups of FieldsetRadios radios each, on a URL with no
\* variant parameter (so #syncFromUrl returns at once). The picker record holds
\* the class, whether the element is connected and how often it was, the number
\* of lists in #radios, #checkedIndices, the numbers of change listeners on the
\* element and of popstate listeners on window, the radios marked current /
\* previous per group, and per group the selections actually made in it (the
\* marked radio at first connect, then the last two selections).

\* Number of connects, disconnects and change events.
MaxConnectSteps == 4

NFieldsets == 2
FieldsetRadios == 2

ConnectClasses == {"vp", "dual"}

\* The pushes of connectedCallback: one radio list per group; one history per
\* group holding the index of the radio marked current. For a group with no
\* such radio the dual picker pushes an empty history and VariantPicker none.
RECURSIVE PushHistories(_, _, _, _)
PushHistories(cls, cur, k, acc) ==
  IF k > NFieldsets THEN acc
  ELSE LET marked == cur[k]
           initialCheckedIndex == IF marked = {} THEN 0
                                  ELSE CHOOSE i \in marked : \A j \in marked : i <= j
       IN PushHistories(cls, cur, k + 1,
            IF initialCheckedIndex # 0 THEN Append(acc, <<initialCheckedIndex>>)
            ELSE IF cls = "dual" THEN Append(acc, <<>>)
            ELSE acc)

\* connectedCallback of VariantPicker / VariantPickerCLDual on st.
ConnectedCallbackOn(st) ==
  [st EXCEPT !.connected = TRUE, !.connects = @ + 1,
             !.radios = @ + NFieldsets,
             !.checkedIndices = PushHistories(st.cls, st.cur, 1, @),
             !.changeListeners = @ + 1,
             !.urlListeners = @ + 1]

InitConnect ==
  /\ kind = "connect"
  /\ \E cls \in ConnectClasses :
     \E cur \in [1..NFieldsets -> {{}} \cup {{i} : i \in 1..FieldsetRadios}] :
       picker = ConnectedCallbackOn(
                  [cls |-> cls, connected |-> FALSE, connects |-> 0, radios |-> 0,
                   checkedIndices |-> <<>>, changeListeners |-> 0, urlListeners |-> 0,
                   cur |-> cur, prev |-> [k \in 1..NFieldsets |-> {}],
                   selections |-> [k \in 1..NFieldsets |->
                                    IF cur[k] = {} THEN <<>>
                                    ELSE << CHOOSE i \in cur[k] : TRUE >>]])
  /\ loaded = TRUE /\ page = 1 /\ abortController = 0 /\ fetches = <<>>
  /\ rafQ = <<>> /\ yieldQ = <<>> /\ timerQ = 0
  /\ location = StartLocation("dual") /\ hist = <<External, location>> /\ histIdx = 2
  /\ hashNavs = 0 /\ log = <<>> /\ npicks = 0 /\ nfailures = 0 /\ lastResolved = 0

\* The element is inserted into the document again.
ConnectedCallback ==
  /\ kind = "connect" /\ npicks < MaxConnectSteps /\ ~picker.connected
  /\ picker' = ConnectedCallbackOn(picker)
  /\ npicks' = npicks + 1
  /\ UNCHANGED <<kind, loaded, page, abortController, fetches, rafQ, yieldQ, timerQ, location,
                 hist, histIdx, hashNavs, log, nfailures, lastResolved>>

\* The element is removed from the document: the popstate listener (and the
\* dual picker's document listener) is removed, nothing else.
DisconnectedCallback ==
  /\ kind = "connect" /\ npicks < MaxConnectSteps /\ picker.connected
  /\ picker' = [picker EXCEPT !.connected = FALSE, !.urlListeners = 0]
  /\ npicks' = npicks + 1
  /\ UNCHANGED <<kind, loaded, page, abortController, fetches, rafQ, yieldQ, timerQ, location,
                 hist, histIdx, hashNavs, log, nfailures, lastResolved>>

\* One run of the change listener for radio i of group k on r = [st, lg]: the
\* pill update of updateSelectedOption with #checkedIndices[k], when there is
\* one, and the VariantSelectedEvent.
ChangeListenerRuns(r, k, i, pk) ==
  LET st == r.st
      tracked == k <= Len(st.checkedIndices)
      u == UpdatePill(st.cur[k], st.prev[k], st.checkedIndices[k], i)
  IN [st |-> IF tracked
             THEN [st EXCEPT !.cur[k] = u.cur, !.prev[k] = u.prev, !.checkedIndices[k] = u.idx]
             ELSE st,
      lg |-> Append(r.lg, [e |-> "Selected", pick |-> pk, f |-> 0, id |-> "",
                           k |-> k, r |-> i, connects |-> st.connects, cls |-> st.cls,
                           tracked |-> tracked,
                           used |-> IF tracked THEN st.checkedIndices[k] ELSE <<>>,
                           own |-> st.selections[k]])]

RECURSIVE ChangeListenersRun(_, _, _, _, _)
ChangeListenersRun(r, k, i, pk, n) ==
  IF n = 0 THEN r ELSE ChangeListenersRun(ChangeListenerRuns(r, k, i, pk), k, i, pk, n - 1)

\* The shopper checks radio i of group k: the change event reaches every change
\* listener of the picker element.
ChangeEvent(k, i) ==
  /\ kind = "connect" /\ npicks < MaxConnectSteps /\ picker.connected
  /\ npicks' = npicks + 1
  /\ LET r == ChangeListenersRun([st |-> picker, lg |-> log], k, i, npicks + 1,
                                 picker.changeListeners)
     IN /\ picker' = [r.st EXCEPT !.selections[k] = Take2(<<i>> \o @)]
        /\ log' = r.lg
  /\ UNCHANGED <<kind, loaded, page, abortController, fetches, rafQ, yieldQ, timerQ, location,
                 hist, histIdx, hashNavs, nfailures, lastResolved>>

NextConnect ==
  \/ ConnectedCallback
  \/ DisconnectedCallback
  \/ \E k \in 1..NFieldsets : \E i \in 1..FieldsetRadios : ChangeEvent(k, i)

\* A picker element under reconnects and selections.
SpecConnect == InitConnect /\ [][NextConnect]_vars

\* ------------------------------------------------------------- claims

\* The log entries of kind e.
Entries(e) == {i \in 1..Len(log) : log[i].e = e}

\* The log entries that change the page for the shopper: morphs and Updated events.
Effects == Entries("Morph") \cup Entries("Updated")

\* The last entry of kind e in the log (0: none).
Last(e) == IF Entries(e) = {} THEN 0 ELSE CHOOSE i \in Entries(e) : \A j \in Entries(e) : j <= i

\* C1: once a picker has issued a later fetch, the response of an earlier fetch of
\* that picker causes no morph and no Updated event: every morph and every Updated
\* event that follows the issue of fetch g belongs to g or to a fetch issued after g.
C1_StaleResponseSuppressed ==
  \A i \in Entries("Fetch") : \A j \in Effects : i < j => log[j].f >= log[i].f

\* C1 witness: the response of an aborted fetch arrived after a later fetch was
\* issued, and that later fetch went on to morph the page.
C1_Witness ==
  \E f \in 1..Len(fetches) : \E g \in 1..Len(fetches) :
    /\ f < g /\ fetches[f].st = "dropped" /\ fetches[g].st = "done"
    /\ \E j \in Entries("Morph") : log[j].f = g

\* C3: a picker has at most one fetch in flight that is not aborted, and it is the
\* one its #abortController belongs to (the latest it started).
C3_AtMostOneInFlight ==
  /\ Cardinality({f \in 1..Len(fetches) : fetches[f].st = "pending"}) <= 1
  /\ \A f \in 1..Len(fetches) :
       fetches[f].st = "pending" => f = abortController /\ f = Len(fetches)

\* C3 witness: a second fetch was started while the first was in flight: the first is
\* aborted, the second pending.
C3_Witness ==
  /\ Len(fetches) >= 2
  /\ fetches[1].st = "aborted"
  /\ fetches[Len(fetches)].st = "pending"

\* C2 (as claimed): once nothing is pending and no fetch has failed, the last morph
\* and the last Updated event are those of the combination the most recent pick resolved.
C2_LatestPickWins ==
  (kind = "dual" /\ Connected /\ Idle /\ nfailures = 0 /\ lastResolved # 0)
    => /\ Last("Morph") # 0 /\ log[Last("Morph")].id = Family[lastResolved].variantId
       /\ Last("Updated") # 0 /\ log[Last("Updated")].id = Family[lastResolved].variantId

\* C4 (as claimed): after the Selected event of pick k, no morph and no Updated event
\* of a fetch that was issued before pick k was made.
C4_NoStaleAfterSelected ==
  kind = "dual" =>
    \A i \in Entries("Selected") : \A j \in Effects :
      i < j => fetches[log[j].f].upto >= log[i].pick

\* C5 (as claimed): with every fetch answered by its product page, no Selected event
\* is left without a following Updated event once nothing is pending.
C5_SelectedThenUpdated ==
  (loaded /\ Idle /\ nfailures = 0 /\ Last("Selected") # 0)
    => Last("Updated") > Last("Selected")

\* C6 (as claimed): every fetch issued for a pick is preceded by a Selected event the
\* picker dispatched for that pick.
C6_SelectedBeforeFetch ==
  \A j \in Entries("Fetch") :
    \E i \in Entries("Selected") : i < j /\ log[i].pick = log[j].pick

\* C7 (as claimed): when the fetch of the latest pick failed in the network, the
\* selection state, the checked radios, the page and the URL are what they were
\* immediately before that pick, and no Updated event was dispatched for it.
C7_FailureRestoresState ==
  \A f \in 1..Len(fetches) :
    (kind = "dual" /\ loaded /\ Idle /\ fetches[f].st = "failed" /\ f = Len(fetches)
       /\ fetches[f].pick = npicks)
      => /\ Snapshot = fetches[f].before
         /\ \A j \in Entries("Updated") : log[j].f # f

\* C8 (as claimed): a response with a non-success status causes no morph and no
\* Updated event.
C8_ErrorStatusNoEffect ==
  \A j \in Effects : fetches[log[j].f].status < 400

\* C9 (as claimed): every URL write follows the Updated event of its own navigation.
C9_UrlAfterUpdated ==
  \A j \in Entries("Url") :
    \E i \in Entries("Updated") : i < j /\ log[i].pick = log[j].pick

\* The products the page was switched to, in order.
Switched == [k \in 1..Cardinality(Entries("Morph")) |->
               LET i == CHOOSE i \in Entries("Morph") :
                          Cardinality({j \in Entries("Morph") : j <= i}) = k
               IN fetches[log[i].f].comb]

\* C10 (as claimed): after two successful switches P1 -> Pa -> Pb, one back
\* navigation leaves the picker showing Pa: selection state and checked radios.
C10_BackRestoresIntermediate ==
  (/\ kind = "dual"
   /\ Len(log) > 0 /\ log[Len(log)].e = "Back"
   /\ nfailures = 0
   /\ Len(Switched) = 2 /\ Switched[1] # 1 /\ Switched[2] \notin {1, Switched[1]})
    => /\ loaded
       /\ picker.selectedColor = Family[Switched[1]].color
       /\ picker.selectedSize = Family[Switched[1]].size
       /\ picker.checked = [color |-> Family[Switched[1]].color, size |-> Family[Switched[1]].size]

\* ------------------------------------------------ partial selections

\* find(color, size) has a result for the selection of picker state st: both
\* dimensions have a value and some combination equals them, letter case and
\* surrounding whitespace aside.
Resolves(st) ==
  /\ st.selectedColor # "" /\ st.selectedSize # ""
  /\ \E i \in 1..Len(st.combinations) :
       /\ ToLowerCase(Trim(st.combinations[i].color)) = ToLowerCase(Trim(st.selectedColor))
       /\ ToLowerCase(Trim(st.combinations[i].size)) = ToLowerCase(Trim(st.selectedSize))

Selected(st) ==
  {i \in 1..Len(st.combinations) :
     /\ Trim(st.combinations[i].color) = Trim(st.selectedColor)
     /\ Trim(st.combinations[i].size) = Trim(st.selectedSize)}

\* C12 (as claimed): every Selected event and every fetch of a dual picker is for
\* a combination whose available flag is true.
C12_NavigationRequiresAvailable ==
  kind = "dual" =>
    \A i \in Entries("Selected") \cup Entries("Fetch") :
      \E c \in 1..NFamily : Family[c].variantId = log[i].id /\ Family[c].available

\* C12 (amended): a dual picker dispatches Selected, and issues a fetch, only with
\* a selection that resolves to a combination of its set, and for that combination;
\* the available flag of the combination plays no part.
C12_NavigationRequiresCombination ==
  [][(kind = "dual" /\ Len(log') > Len(log) /\ log'[Len(log')].e \in {"Selected", "Fetch"})
       => /\ Resolves(picker')
          /\ \E c \in Selected(picker') : picker'.combinations[c].variantId = log'[Len(log')].id]_vars

\* C12: the dual picker has dispatched Selected and fetched for a combination
\* whose available flag is false.
C12_Witness ==
  /\ kind = "dual"
  /\ \E i \in Entries("Selected"), j \in Entries("Fetch") :
       /\ i < j /\ log[i].pick = log[j].pick /\ log[i].id = log[j].id
       /\ \E c \in 1..NFamily : Family[c].variantId = log[j].id /\ ~Family[c].available

\* ------------------------------------------------ external Updated events

\* C13 (as claimed): once a dual picker has handled an Updated event of another
\* component whose variant id is that of combination c of its set (the handler
\* and the callback it queued have run, nothing else happened since), its
\* selection is exactly (c.color, c.size).
C13_ExternalUpdatedResets ==
  (/\ kind = "dual" /\ Connected /\ Len(log) > 0 /\ log[Len(log)].e = "External"
   /\ log[Len(log)].pick = npicks /\ rafQ = <<>> /\ yieldQ = <<>>)
    => \A c \in 1..Len(picker.combinations) :
         picker.combinations[c].variantId = log[Len(log)].id
           => /\ picker.selectedColor = picker.combinations[c].color
              /\ picker.selectedSize = picker.combinations[c].size

\* ------------------------------------------------------------ find(color, size)

\* C14 (as claimed): the lookup that decides to dispatch Selected and the lookup
\* that chooses the product to fetch return the same combination, for every
\* selection and every combination set.
C14_LookupsAgree ==
  kind = "find" =>
    \A i, j \in 1..Len(log) :
      (log[i].e = "FindSelected" /\ log[j].e = "FindToNavigate") => log[i].r = log[j].r

\* ------------------------------------------------------------ filtering marks

\* #updateFiltering has run on the current selection of the dual picker: no frame
\* of a pick and no post-morph reinitialize is still queued.
Filtered ==
  /\ kind = "dual" /\ rafQ = <<>>
  /\ \A i \in 1..Len(yieldQ) : yieldQ[i].t # "reinit"

\* Some combination of st has color x and the selected size (any size if none is selected).
ColorHasCombination(st, x) ==
  \E i \in 1..Len(st.combinations) :
    /\ Trim(st.combinations[i].color) = Trim(x)
    /\ (st.selectedSize = "" \/ Trim(st.combinations[i].size) = Trim(st.selectedSize))

\* Some combination of st has size x and the selected color (any color if none is selected).
SizeHasCombination(st, x) ==
  \E i \in 1..Len(st.combinations) :
    /\ Trim(st.combinations[i].size) = Trim(x)
    /\ (st.selectedColor = "" \/ Trim(st.combinations[i].color) = Trim(st.selectedColor))

\* The same, counting only combinations whose available flag is true.
SizeHasAvailableCombination(st, x) ==
  \E i \in 1..Len(st.combinations) :
    /\ Trim(st.combinations[i].size) = Trim(x)
    /\ st.combinations[i].available
    /\ (st.selectedColor = "" \/ Trim(st.combinations[i].color) = Trim(st.selectedColor))

\* C15 (as claimed): after filtering, an option of either dimension is marked
\* unavailable if and only if no combination exists for it and the selected value
\* of the other dimension; the rule is the same for color and for size.
C15_MarksIffNoCombination ==
  Filtered =>
    /\ \A i \in 1..Len(Inputs.color) :
         Inputs.color[i] \in picker.unavailable.color <=> ~ColorHasCombination(picker, Inputs.color[i])
    /\ \A i \in 1..Len(Inputs.size) :
         Inputs.size[i] \in picker.unavailable.size <=> ~SizeHasCombination(picker, Inputs.size[i])

\* C15 (amended): after filtering, a color is marked unavailable if and only if no
\* combination exists for it and the selected size; a size is marked unavailable if
\* and only if no combination with available = true exists for it and the selected color.
C15_MarksFollowFiltering ==
  Filtered =>
    /\ \A i \in 1..Len(Inputs.color) :
         Inputs.color[i] \in picker.unavailable.color <=> ~ColorHasCombination(picker, Inputs.color[i])
    /\ \A i \in 1..Len(Inputs.size) :
         Inputs.size[i] \in picker.unavailable.size <=> ~SizeHasAvailableCombination(picker, Inputs.size[i])

\* C15: after a pick and its filtering, a size is marked unavailable although a
\* combination exists for it and the selected color, and a color is marked
\* unavailable because none exists for it and the selected size.
C15_Witness ==
  /\ Filtered /\ npicks > 0 /\ Connected
  /\ \E i \in 1..Len(Inputs.size) :
       Inputs.size[i] \in picker.unavailable.size /\ SizeHasCombination(picker, Inputs.size[i])
  /\ \E i \in 1..Len(Inputs.color) :
       Inputs.color[i] \in picker.unavailable.color /\ ~ColorHasCombination(picker, Inputs.color[i])

\* C16: after filtering, the option whose value is the selected color, and the one
\* whose value is the selected size, is not disabled (input.disabled, data-disabled),
\* whether or not it is marked unavailable.
C16_CurrentChoiceNotDisabled ==
  Filtered =>
    /\ \A i \in 1..Len(Inputs.color) :
         (picker.selectedColor # "" /\ Trim(Inputs.color[i]) = Trim(picker.selectedColor))
           => Inputs.color[i] \notin picker.disabled.color
    /\ \A i \in 1..Len(Inputs.size) :
         (picker.selectedSize # "" /\ Trim(Inputs.size[i]) = Trim(picker.selectedSize))
           => Inputs.size[i] \notin picker.disabled.size

\* C16: after a pick and its filtering, the selected size has no combination with
\* the selected color and is marked unavailable, and its input is not disabled.
C16_Witness ==
  /\ Filtered /\ npicks > 0 /\ Connected
  /\ \E i \in 1..Len(Inputs.size) :
       /\ Trim(Inputs.size[i]) = Trim(picker.selectedSize)
       /\ ~SizeHasCombination(picker, Inputs.size[i])
       /\ Inputs.size[i] \in picker.unavailable.size
       /\ Inputs.size[i] \notin picker.disabled.size

\* ------------------------------------------------------ event propagation

\* The elements an event dispatched by the picker bubbles through, target first:
\* in a product card of a collection page, or in the section of a product page.
PathOf(k) ==
  IF k = "sw" THEN <<"swatches-variant-picker-component", "product-card", "section", "document">>
  ELSE <<"variant-picker", "section", "document">>

\* The ancestors of a product card.
CardAncestors == {"section", "document"}

\* A card whose listeners let every event pass.
StopsNothing(type, node) == FALSE

\* The listeners of node call event.stopPropagation() on an event of the type:
\* ProductCard.#handleVariantUpdate does, first thing; #handleVariantSelected does not.
StopsPropagation(type, node) == type = "Updated" /\ node = "product-card"

\* The elements whose listeners an event of the type, dispatched at the head of
\* the path, is delivered to.
DeliveredTo(type, path) ==
  {path[i] : i \in {j \in 1..Len(path) : \A h \in 1..(j - 1) : ~StopsPropagation(type, path[h])}}

\* C17: an Updated event dispatched by the picker of a product card is delivered to
\* the card and to no ancestor of the card; a Selected event dispatched there is
\* delivered to every ancestor of the card.
C17_UpdatedStaysInCard ==
  kind = "sw" =>
    /\ \A i \in Entries("Updated") :
         /\ "product-card" \in DeliveredTo(log[i].e, PathOf(kind))
         /\ DeliveredTo(log[i].e, PathOf(kind)) \cap CardAncestors = {}
    /\ \A i \in Entries("Selected") :
         CardAncestors \subseteq DeliveredTo(log[i].e, PathOf(kind))

\* C17: the picker of a product card has dispatched a Selected and an Updated event.
C17_Witness ==
  kind = "sw" /\ Entries("Selected") # {} /\ Entries("Updated") # {}

\* ------------------------------------------------------------- own events

\* The step appends an Updated event to the log: the picker dispatched it.
DispatchesUpdated == Len(log') > Len(log) /\ log'[Len(log')].e = "Updated"

\* C18 (as claimed): a picker that listens for the Updated events it dispatches
\* changes nothing on receiving its own event: the dual picker queues no
\* reinitialize, the swatches picker leaves the card link as it was.
C18_SelfOriginIgnored ==
  [][/\ kind = "dual" => \A i \in 1..Len(yieldQ') : yieldQ'[i].t # "reinitSelf"
     /\ (kind = "sw" /\ DispatchesUpdated) => picker'.cardLink = picker.cardLink]_vars

\* ------------------------------------------------------ failures of a fetch

\* C19 (as claimed): no failure of a fetch flow ends as a rejected promise that
\* nothing handles.
C19_NoUnhandledRejection == Entries("UnhandledRejection") = {}

\* ------------------------------------------------------ missing DOM anchor

C21_SelectionOnlyByPick ==
  [][(kind = "dual" /\ npicks' = npicks)
       => /\ picker'.selectedColor = picker.selectedColor
          /\ picker'.selectedSize = picker.selectedSize]_vars

\* ------------------------------------------------------ URL-driven resync

\* The picker state st already shows the product and the variant of URL loc.
MatchesUrl(st, loc) ==
  /\ loc.variant # ""
  /\ IF kind = "dual"
     THEN /\ st.currentProductUrl = loc.path
          /\ \E c \in 1..Len(st.combinations) :
               /\ st.combinations[c].variantId = loc.variant
               /\ st.selectedColor = st.combinations[c].color
               /\ st.selectedSize = st.combinations[c].size
               /\ st.checked = [color |-> st.combinations[c].color, size |-> st.combinations[c].size]
     ELSE /\ st.dataset.productUrl = loc.path
          /\ st.checked # 0
          /\ Options(kind)[st.checked].variantId = loc.variant

\* C22 (as claimed): a popstate resync (#syncFromUrl) of a dual picker or a
\* VariantPicker that already matches the URL changes no selection, no checked
\* input, no pill mark and no checked-index history, and issues no fetch.
C22_ResyncIdempotent ==
  [][(/\ kind \in {"dual", "vp"} /\ Connected
      /\ histIdx' = histIdx - 1 /\ loaded'
      /\ MatchesUrl(picker, location'))
       => /\ picker'.checked = picker.checked
          /\ picker'.pillCurrent = picker.pillCurrent
          /\ picker'.pillPrevious = picker.pillPrevious
          /\ picker'.checkedIndices = picker.checkedIndices
          /\ kind = "dual" => /\ picker'.selectedColor = picker.selectedColor
                              /\ picker'.selectedSize = picker.selectedSize
          /\ fetches' = fetches]_vars

\* The first combination of st whose color and size are those of the checked radios,
\* compared as #handleSelectionChange compares them (0: none).
CheckedResolves(st) ==
  FindFirst({i \in 1..Len(st.combinations) :
               /\ ToLowerCase(Trim(st.combinations[i].color)) = ToLowerCase(Trim(st.checked.color))
               /\ ToLowerCase(Trim(st.combinations[i].size)) = ToLowerCase(Trim(st.checked.size))})

\* The first combination of st whose color and size are those of the checked radios,
\* compared as #navigateToMatchingProduct compares them (0: none).
CheckedNavigates(st) ==
  FindFirst({i \in 1..Len(st.combinations) :
               /\ st.combinations[i].color # "" /\ st.combinations[i].size # ""
               /\ Trim(st.combinations[i].color) = Trim(st.checked.color)
               /\ Trim(st.combinations[i].size) = Trim(st.checked.size)})

\* C23: order independence. Starting with no dimension selected, once a color and
\* a size are checked and the frame callback has run, the combination announced
\* (Selected) and the combination fetched depend only on the checked pair and on
\* the combination set, not on which of the two was checked first: color A then
\* size B and size B then color A (one pick per dimension) resolve and navigate to
\* the same combination.
C23_OrderIndependent ==
  (/\ kind = "dual" /\ rafQ = <<>> /\ npicks = Cardinality(Dims)
   /\ picker.checked.color # "" /\ picker.checked.size # "")
    => /\ CheckedResolves(picker) # 0 /\ CheckedNavigates(picker) # 0
       /\ Entries("Selected") # {}
       /\ log[Last("Selected")].id = picker.combinations[CheckedResolves(picker)].variantId
       /\ fetches # <<>>
       /\ fetches[Len(fetches)].comb = CheckedNavigates(picker)
       /\ fetches[Len(fetches)].st = "pending"

\* C23 witness: the size was checked first, then the color, and the pair's
\* combination is being fetched.
C23_Witness ==
  /\ kind = "dual" /\ Len(fetches) = 1 /\ npicks = 2
  /\ fetches[1].before.selectedColor = "" /\ fetches[1].before.selectedSize # ""
  /\ picker.checked.color # "" /\ picker.checked.size # ""
  /\ fetches[1].comb = CheckedNavigates(picker)

\* The '|||'-separated entries of the string being parsed, and the fields of entry i.
EntriesOf(dataString) == Split(dataString, 3, <<>>)

FieldsOf(dataString, i) == Split(EntriesOf(dataString)[i], 1, <<>>)

\* The positions of the entries of dataString that have exactly 7 fields, and
\* those that have 7 fields or more.
Exactly7(dataString) == {i \in 1..Len(EntriesOf(dataString)) : Len(FieldsOf(dataString, i)) = 7}

AtLeast7(dataString) == {i \in 1..Len(EntriesOf(dataString)) : Len(FieldsOf(dataString, i)) >= 7}

\* The combinations cs are, in input order over the positions K, the entries of
\* dataString mapped field by field (available and isCurrent true iff the text is "true").
MapsPositionally(cs, dataString, K) ==
  /\ Len(cs) = Cardinality(K)
  /\ \A i \in K :
       LET n == Cardinality({j \in K : j <= i})
           parts == FieldsOf(dataString, i)
       IN /\ cs[n].productId = parts[1] /\ cs[n].variantId = parts[2]
          /\ cs[n].color = parts[3] /\ cs[n].size = parts[4]
          /\ cs[n].productUrl = parts[5]
          /\ cs[n].available = (parts[6] = <<"true">>)
          /\ cs[n].isCurrent = (parts[7] = <<"true">>)

\* C24 (as claimed): #parseCombinations returns, in input order, exactly the
\* entries that have exactly 7 fields, mapped positionally; every entry with any
\* other number of fields is dropped.
C24_KeepsExactly7 ==
  (kind = "parse" /\ picker.parsed)
    => MapsPositionally(picker.combinations, picker.dataString, Exactly7(picker.dataString))

\* C24 (amended): #parseCombinations returns, in input order, exactly the entries
\* that have 7 fields or more, mapped positionally from their first 7 fields
\* (available and isCurrent true iff the text is "true"); entries with fewer
\* than 7 fields are dropped and do not stop the parse.
C24_KeepsAtLeast7 ==
  (kind = "parse" /\ picker.parsed)
    => MapsPositionally(picker.combinations, picker.dataString, AtLeast7(picker.dataString))

\* C24 witness: a string with a short entry, an entry of 7 fields and an entry of
\* more than 7 fields has been parsed; the short one is dropped, the others kept.
C24_Witness ==
  /\ kind = "parse" /\ picker.parsed
  /\ \E i \in 1..Len(EntriesOf(picker.dataString)) : Len(FieldsOf(picker.dataString, i)) < 7
  /\ Exactly7(picker.dataString) # {}
  /\ AtLeast7(picker.dataString) # Exactly7(picker.dataString)
  /\ Len(picker.combinations) = Cardinality(AtLeast7(picker.dataString))

\* Combination i of st has the color c, has the size z (values compared trimmed;
\* an empty value is no value).
HasColor(st, i, c) == st.combinations[i].color # "" /\ Trim(st.combinations[i].color) = c

HasSize(st, i, z) == st.combinations[i].size # "" /\ Trim(st.combinations[i].size) = z

\* C25: availability queries. With a size S selected, the available colors are
\* exactly the colors that have at least one combination with size S (no color
\* lacking a combination at S is among them); with no size selected they are all
\* the colors of the set. The available sizes are the symmetric query.
C25_AvailabilityExact ==
  \A k \in 1..Len(log) :
    /\ log[k].e = "AvailableColors" =>
          \A c \in {Trim(v) : v \in FindColors} :
            c \in log[k].r <=>
              \E i \in 1..Len(picker.combinations) :
                /\ HasColor(picker, i, c)
                /\ picker.selectedSize # "" => HasSize(picker, i, Trim(picker.selectedSize))
    /\ log[k].e = "AvailableColors" => log[k].r \subseteq {Trim(v) : v \in FindColors}
    /\ log[k].e = "AvailableSizes" =>
          \A z \in {Trim(v) : v \in FindSizes} :
            z \in log[k].r <=>
              \E i \in 1..Len(picker.combinations) :
                /\ HasSize(picker, i, z)
                /\ picker.selectedColor # "" => HasColor(picker, i, Trim(picker.selectedColor))
    /\ log[k].e = "AvailableSizes" => log[k].r \subseteq {Trim(v) : v \in FindSizes}

\* C25 witness: with a size selected, the set has a color with a combination at
\* that size and a color without one; the query returned the first and not the second.
C25_Witness ==
  /\ kind = "query" /\ picker.selectedSize # ""
  /\ \E k \in 1..Len(log) :
       /\ log[k].e = "AvailableColors"
       /\ log[k].r # {}
       /\ \E i \in 1..Len(picker.combinations) :
            /\ picker.combinations[i].color # ""
            /\ Trim(picker.combinations[i].color) \notin log[k].r

\* Combinations i and j of st carry the same color and size, as the lookup e compares them.
SameOption(st, e, i, j) ==
  IF e = "FindSelected"
  THEN /\ ToLowerCase(Trim(st.combinations[i].color)) = ToLowerCase(Trim(st.combinations[j].color))
       /\ ToLowerCase(Trim(st.combinations[i].size)) = ToLowerCase(Trim(st.combinations[j].size))
  ELSE /\ Trim(st.combinations[i].color) = Trim(st.combinations[j].color)
       /\ Trim(st.combinations[i].size) = Trim(st.combinations[j].size)

\* The position of the combination of st whose product page is url (0: none).
AtUrl(st, url) ==
  FindFirst({i \in 1..Len(st.combinations) : st.combinations[i].productUrl = url})

C28_BoundedHistory ==
  kind = "pill" =>
    /\ Len(picker.checkedIndices) <= 2
    /\ log # <<>> => picker.checkedIndices[1] = log[Len(log)].r
    /\ Len(log) >= 2 => /\ Len(picker.checkedIndices) = 2
                        /\ picker.checkedIndices[2] = log[Len(log) - 1].r

\* C28 witness: a third, different input was selected on a history that held
\* two entries; the oldest entry is gone.
C28_Witness ==
  /\ kind = "pill" /\ Len(log) = 3
  /\ log[1].r # log[2].r /\ log[2].r # log[3].r /\ log[1].r # log[3].r
  /\ picker.checkedIndices = <<log[3].r, log[2].r>>

\* The fetches that ended by cancellation, and those that failed in the network.
Cancelled == {f \in 1..Len(fetches) : fetches[f].st \in {"aborted", "dropped"}}

Failed == {f \in 1..Len(fetches) : fetches[f].st = "failed"}

\* The log entries written by catch handlers.
CatchEntries == Entries("Error") \cup Entries("AbortWarning")

\* C29 (as claimed): in every picker, a fetch that ended because it was cancelled
\* leaves no log entry, and every fetch that failed otherwise leaves one.
C29_LoggingTaxonomy ==
  /\ \A f \in Cancelled : \A i \in CatchEntries : log[i].f # f
  /\ \A f \in Failed : \E i \in Entries("Error") : log[i].f = f

\* C30 (as claimed): QuickAddComponent keeps at most one request pending: under
\* any interleaving of fetchProductPage calls and completions, a new call aborts
\* the previous request if it is still pending, so at most one fetch of the
\* component is in flight.
C30_AtMostOnePending ==
  kind = "quickadd" => Cardinality({f \in 1..Len(fetches) : fetches[f].st = "pending"}) <= 1

\* C31 (as claimed): the Updated event a dual picker dispatches carries newProduct
\* exactly when the product id found in the fetched document differs from the
\* product id the picker had before the morph.
C31_NewProductIffIdChanged ==
  [][(/\ kind = "dual" /\ Len(log') = Len(log) + 2
      /\ log'[Len(log')].e = "Updated" /\ log'[Len(log')].f # 0)
       => LET u == log'[Len(log')]
              newProductId == IF page' = ErrPage THEN picker.dataset.productId
                              ELSE Family[fetches[u.f].comb].productId
          IN (u.newProduct # "") <=> (newProductId # picker.dataset.productId)]_vars

\* C32 (as claimed): quick-add modal listeners do not accumulate. With a morph
\* that keeps the picker element, after any number of modal updates and product
\* loads the picker carries at most one quick-add change listener of each kind.
C32_ListenersDoNotAccumulate ==
  kind = "modal" => picker.variantListeners <= 1 /\ picker.loadListeners <= 1

\* C34 (as claimed): the quick-add dialog never opens on another product's
\* content: whenever handleClick opens the dialog, the modal content is that of
\* the clicked card's product.
C34_OpensOnClickedProduct ==
  \A i \in Entries("Open") : log[i].content = log[i].url

\* C35 (as claimed): last swatch wins in the combined-listing modal. Once every
\* load has completed with its page, the modal content, the tracked modal URL
\* and the form's variant id are those of the swatch the shopper selected last.
C35_LastSwatchWins ==
  (/\ kind = "modal" /\ picker.lastSwatch # 0 /\ ~picker.loadInProgress
   /\ \A f \in 1..Len(fetches) : fetches[f].caller = "load" => fetches[f].st = "done")
    => /\ picker.content = picker.lastSwatch
       /\ picker.clModalCurrentUrl = picker.lastSwatch
       /\ picker.formVariantId = Family[picker.lastSwatch].variantId

\* C33 (as claimed): only product-page pickers touch the page. A picker inside a
\* product card or a quick-add dialog never changes the browser URL and never
\* morphs the page's main element; this holds for every kind of picker.
C33_InsidePickersLeavePageAlone ==
  kind \in InsideKinds => location = StartLocation("sw") /\ page = 0

\* C36 (as claimed): a pending variant id belongs to one request only. In the
\* swatches picker of a card, the Updated event of a fetch that a plain selection
\* started (no pendingVariantId stored by its click) never carries the pending
\* variant id that an earlier swatch click stored for its own fetch.
C36_PendingBelongsToOneRequest ==
  kind = "sw" =>
    \A i \in Entries("Updated") :
      LET f == log[i].f
      IN fetches[f].url.variant = ""
           => \A g \in 1..(f - 1) : fetches[g].url.variant # "" => log[i].id # fetches[g].url.variant

\* C37 (as claimed): exactly one current pill. After the pill-animation update
\* for radio i, whatever the history before it and also when i is the index
\* already current, radio i alone carries data-current-checked = 'true'.
C37_ExactlyOneCurrent ==
  (kind = "pill" /\ log # <<>>) => picker.pillCurrent = {log[Len(log)].r}

\* C38 (as claimed): hover preview is undone by reset. After a sequence of swatch
\* hovers followed by #resetVariant, with no selection in between, the card link
\* is the URL it had before the hovers when the checked swatch has no product
\* URL, and the checked swatch's product URL otherwise.
C38_HoverUndoneByReset ==
  \A i \in Entries("Reset") :
    (log[i].hovered # {} /\ ~log[i].selectedSince)
      => LET sel == IF log[i].checked = 0 THEN NoUrl
                    ELSE ConnectedProductUrl(CardSwatches[log[i].checked])
         IN log[i].after = IF sel = NoUrl THEN log[i].before ELSE sel

\* C39 (as claimed): connect is idempotent across reconnects. After any sequence
\* of connects and disconnects a connected picker tracks one radio list and at
\* most one history per option group and has one change listener, so that it
\* reacts to one change event exactly once.
C39_ConnectIdempotent ==
  (kind = "connect" /\ picker.connected)
    => /\ picker.radios = NFieldsets
       /\ Len(picker.checkedIndices) <= NFieldsets
       /\ picker.changeListeners = 1
       /\ \A p \in 1..npicks : Cardinality({i \in Entries("Selected") : log[i].pick = p}) <= 1

\* C40 (as claimed): history is aligned with its fieldset. In a VariantPicker
\* connected once, after any selection #checkedIndices[k] is the selection
\* history of fieldset k, also when some fieldset had no radio marked current at
\* connect time, and a selection in fieldset k has updated the pill state with
\* fieldset k's own history.
C40_HistoryAligned ==
  (kind = "connect" /\ picker.cls = "vp" /\ picker.connects = 1 /\ log # <<>>)
    => /\ \A k \in 1..Len(picker.checkedIndices) : picker.checkedIndices[k] = picker.selections[k]
       /\ \A i \in Entries("Selected") : log[i].tracked => log[i].used = log[i].own

====
